---- MODULE Spec2Model ----
(***************************************************************************)
(* Model of the agenda-api edge function                                   *)
(* (supabase/functions/agenda-api/index.ts): the request handlers          *)
(* handleCheck, handleCreate, handleCancel, handleCheckClient and          *)
(* handleRegisterClient running concurrently against one shared store.     *)
(* Every store call (one awaited supabase query) is one atomic step.       *)
(*                                                                         *)
(* Instants are minutes: instant = day * 1440 + minute of the day (UTC).   *)
(* Text is a sequence of one-character strings, so that normalisation      *)
(* and pattern matching are computed and not assumed.                      *)
(***************************************************************************)
EXTENDS Integers, Sequences, FiniteSets, TLC

\* ------------------------------------------------------------------ bounds

\* concurrent request workers
NumProcs == 2
\* requests served in one behaviour
MaxRequests == 3
\* store calls that fail in one behaviour
MaxFaults == 1
\* status changes made by the administration in one behaviour
MaxStatusChanges == 1

Procs == 1..NumProcs

\* ------------------------------------------------------------- time, text

DayMinutes == 24 * 60

\* A timestamp string "YYYY-MM-DDTHH:MM:SS<zone>": day, minute of the day and
\* zone suffix ("" when the string carries no zone). ok = FALSE is a string
\* that new Date() cannot parse.
Stamp(d, m, z) == [ok |-> TRUE, day |-> d, min |-> m, zone |-> z]
BadStamp == [ok |-> FALSE, day |-> 0, min |-> 0, zone |-> ""]
NoStamp == [ok |-> FALSE, day |-> 0, min |-> 0, zone |-> "absent"]

\* minutes east of UTC denoted by a zone suffix
ZoneMinutes(z) ==
  CASE z = "Z" -> 0
    [] z = "-02:00" -> -120
    [] z = "-03:00" -> -180
    [] z = "-04:00" -> -240
    [] z = "-05:00" -> -300
    [] z = "+01:00" -> 60
    [] OTHER -> 0

\* new Date(s) for a string that carries its zone: the instant it denotes
ParseZoned(s) == s.day * DayMinutes + s.min - ZoneMinutes(s.zone)

\* new Date(s) / a timestamptz literal for a string without zone: the runtime and
\* the store session both run in UTC
ParseServerLocal(d, m) == d * DayMinutes + m

\* a lookup that misses the table and always falls back to the default
getTimezoneOffsetDefault(timezone) == "-03:00"

getTimezoneOffset(timezone) ==
  CASE timezone = "America/Sao_Paulo" -> "-03:00"
    [] timezone = "America/Cuiaba" -> "-04:00"
    [] timezone = "America/Manaus" -> "-04:00"
    [] timezone = "America/Fortaleza" -> "-03:00"
    [] timezone = "America/Recife" -> "-03:00"
    [] timezone = "America/Belem" -> "-03:00"
    [] timezone = "America/Rio_Branco" -> "-05:00"
    [] timezone = "America/Noronha" -> "-02:00"
    [] timezone = "America/Porto_Velho" -> "-04:00"
    [] timezone = "America/Boa_Vista" -> "-04:00"
    [] OTHER -> "-03:00"

\* a conversion that takes an unparseable string for the epoch
convertLocalToUTCLenient(dateTimeStr, timezone) ==
  IF ~dateTimeStr.ok THEN [ok |-> TRUE, t |-> 0]
  ELSE IF dateTimeStr.zone # ""
    THEN [ok |-> TRUE, t |-> ParseZoned(dateTimeStr)]
    ELSE [ok |-> TRUE,
          t |-> ParseZoned([dateTimeStr EXCEPT !.zone = getTimezoneOffset(timezone)])]

\* a conversion that puts the unit's offset in the place of the zone sent
convertLocalToUTCUnitZone(dateTimeStr, timezone) ==
  IF ~dateTimeStr.ok THEN [ok |-> FALSE, t |-> 0]
  ELSE [ok |-> TRUE,
        t |-> ParseZoned([dateTimeStr EXCEPT !.zone = getTimezoneOffset(timezone)])]

\* convertLocalToUTC: [ok, t]; ok = FALSE is an Invalid Date
convertLocalToUTC(dateTimeStr, timezone) ==
  IF ~dateTimeStr.ok THEN [ok |-> FALSE, t |-> 0]
  ELSE IF dateTimeStr.zone # ""
    THEN [ok |-> TRUE, t |-> ParseZoned(dateTimeStr)]
    ELSE [ok |-> TRUE,
          t |-> ParseZoned([dateTimeStr EXCEPT !.zone = getTimezoneOffset(timezone)])]

Digits == {"0", "1", "2", "3", "4", "5", "6", "7", "8", "9"}

\* rawPhone?.replace(/\D/g, '') || null ; <<>> stands for null
NormalizePhone(raw) == SelectSeq(raw, LAMBDA c : c \in Digits)

Lower(c) ==
  CASE c = "A" -> "a" [] c = "B" -> "b" [] c = "J" -> "j" [] c = "L" -> "l"
    [] c = "O" -> "o" [] c = "C" -> "c" [] c = "N" -> "n" [] OTHER -> c

\* SQL ILIKE: % matches any run of characters, _ any one character
RECURSIVE ILike(_, _)
ILike(s, p) ==
  IF p = <<>> THEN s = <<>>
  ELSE IF Head(p) = "%"
    THEN ILike(s, Tail(p)) \/ (s # <<>> /\ ILike(Tail(s), p))
    ELSE /\ s # <<>>
         /\ (Head(p) = "_" \/ Lower(Head(s)) = Lower(Head(p)))
         /\ ILike(Tail(s), Tail(p))

Contains(name) == <<"%">> \o name \o <<"%">>

\* ----------------------------------------------------- read-only tables

Units == {1, 2, 3}

\* units.timezone
UnitTimezone(u) ==
  CASE u = 1 -> "America/Sao_Paulo"
    [] u = 3 -> "America/Manaus"
    [] OTHER -> "America/Lima"

\* barbers rows
Barbers ==
  << [id |-> 1, unit_id |-> 1, name |-> <<"J", "o">>, is_active |-> TRUE],
     [id |-> 2, unit_id |-> 1, name |-> <<"B", "o">>, is_active |-> TRUE],
     [id |-> 3, unit_id |-> 1, name |-> <<"A", "l">>, is_active |-> FALSE],
     [id |-> 4, unit_id |-> 2, name |-> <<"J", "o">>, is_active |-> TRUE],
     [id |-> 5, unit_id |-> 3, name |-> <<"J", "o">>, is_active |-> TRUE] >>

\* services rows
Services ==
  << [id |-> 1, unit_id |-> 1, name |-> <<"C", "o">>, price |-> 40,
      duration_minutes |-> 30, is_active |-> TRUE],
     [id |-> 2, unit_id |-> 1, name |-> <<"B", "a">>, price |-> 70,
      duration_minutes |-> 60, is_active |-> TRUE],
     [id |-> 3, unit_id |-> 2, name |-> <<"C", "o">>, price |-> 45,
      duration_minutes |-> 30, is_active |-> TRUE],
     [id |-> 4, unit_id |-> 3, name |-> <<"C", "o">>, price |-> 50,
      duration_minutes |-> 30, is_active |-> TRUE],
     [id |-> 5, unit_id |-> 1, name |-> <<"L", "a">>, price |-> 20,
      duration_minutes |-> 30, is_active |-> FALSE] >>

\* ------------------------------------------------------------------ state

VARIABLES
  appointments,  \* the appointments table; a row's id is its position
  clients,       \* the clients table; a row's id is its position
  pc,            \* pc[p]: the store call worker p is about to make
  req,           \* req[p]: the request body worker p is serving
  loc,           \* loc[p]: the local variables of the running handler
  resp,          \* resp[p]: the response of the last request served by p
  nreq,          \* requests received so far
  faults,        \* store calls that failed so far
  changes        \* status changes made by the administration so far

vars == <<appointments, clients, pc, req, loc, resp, nreq, faults, changes>>

NoPhone == <<>>
NoText == <<>>

NullClient ==
  [id |-> 0, unit_id |-> 0, name |-> NoText, phone |-> NoPhone, birth_date |-> 0,
   notes |-> 0, tags |-> <<>>, total_visits |-> 0]

NoUpdate ==
  [hasBirth |-> FALSE, birth_date |-> 0, hasNotes |-> FALSE, notes |-> 0,
   hasTags |-> FALSE, tags |-> <<>>]

NoLocals ==
  [timezone |-> "", existingClient |-> NullClient, updateData |-> NoUpdate,
   clientData |-> NullClient, clientCreated |-> FALSE, barber |-> 0,
   service |-> 0, startTime |-> 0, endTime |-> 0, found |-> 0, now |-> 0]

NoResponse ==
  [status |-> 0, success |-> FALSE, error |-> "", appointment |-> 0,
   client |-> NullClient, slots |-> <<>>]

NoRequest ==
  [action |-> "", key |-> "", unit_id |-> 0, instance_name |-> 0, nome |-> NoText,
   telefone |-> NoPhone, data |-> NoStamp, barbeiro_nome |-> NoText,
   servico |-> NoText, data_nascimento |-> 0, observacoes |-> 0,
   hasTags |-> FALSE, tags |-> <<>>, appointment_id |-> 0, date |-> 0,
   professional |-> NoText]

Ok(r) == [r EXCEPT !.status = 200, !.success = TRUE]
Fail(code, msg) == [NoResponse EXCEPT !.status = code, !.error = msg]

\* a store call either returns or, while the fault budget lasts, fails

\* a store call that is not made cannot fail
Skipped(made, outcome) == made \/ outcome = "ok"
Errors(outcomes) == Cardinality({i \in DOMAIN outcomes : outcomes[i] = "error"})
\* the outcomes of n store calls made in one step
StoreOutcomeSeqs(n) ==
  {o \in [1..n -> {"ok", "error"}] : faults + Errors(o) <= MaxFaults}

RowIds(table) == 1..Len(table)

\* --------------------------------------------------------------- the store

\* the rows of clients a query on (unit_id, phone) returns
ClientsByPhone(u, phone) ==
  {i \in RowIds(clients) : clients[i].unit_id = u /\ clients[i].phone = phone}

\* the rows a query on (unit_id, name ILIKE pattern [, birth_date]) returns
ClientsByName(u, pattern, birth) ==
  {i \in RowIds(clients) :
     /\ clients[i].unit_id = u
     /\ ILike(clients[i].name, pattern)
     /\ (birth # 0 => clients[i].birth_date = birth)}

\* .maybeSingle(): the row when exactly one matches, null when none matches,
\* an error (data null) when several match
MaybeSingle(table, ids) ==
  IF Cardinality(ids) = 1 THEN table[CHOOSE i \in ids : TRUE] ELSE NullClient
MaybeSingleError(ids) == Cardinality(ids) > 1

\* a store without the uniqueness constraint
ClientInsertUnchecked(row) == TRUE

\* the uniqueness the store enforces on clients (unit_id, phone) for a phone
\* that is not null
ClientInsertAllowed(row) ==
  row.phone = NoPhone \/ ClientsByPhone(row.unit_id, row.phone) = {}

\* a barbers query without the filter on is_active
BarbersLikeAnyStatus(u, pattern) ==
  {i \in RowIds(Barbers) :
     /\ Barbers[i].unit_id = u
     /\ ILike(Barbers[i].name, pattern)}

\* active barbers of a unit whose name matches the pattern
BarbersLike(u, pattern) ==
  {i \in RowIds(Barbers) :
     /\ Barbers[i].unit_id = u
     /\ Barbers[i].is_active
     /\ ILike(Barbers[i].name, pattern)}

ServicesLike(u, pattern) ==
  {i \in RowIds(Services) :
     /\ Services[i].unit_id = u
     /\ Services[i].is_active
     /\ ILike(Services[i].name, pattern)}

\* a conflict query that only looks for appointments starting inside the interval
ConflictingAptsStartInside(u, barber, startTime, endTime) ==
  {i \in RowIds(appointments) :
     /\ appointments[i].unit_id = u
     /\ appointments[i].barber_id = barber
     /\ appointments[i].status # "cancelled"
     /\ appointments[i].start_time >= startTime
     /\ appointments[i].start_time < endTime}

\* a conflict query that only looks for appointments ending inside the interval
ConflictingAptsEndInside(u, barber, startTime, endTime) ==
  {i \in RowIds(appointments) :
     /\ appointments[i].unit_id = u
     /\ appointments[i].barber_id = barber
     /\ appointments[i].status # "cancelled"
     /\ appointments[i].end_time > startTime
     /\ appointments[i].end_time <= endTime}

\* a conflict query on closed intervals
ConflictingAptsClosed(u, barber, startTime, endTime) ==
  {i \in RowIds(appointments) :
     /\ appointments[i].unit_id = u
     /\ appointments[i].barber_id = barber
     /\ appointments[i].status # "cancelled"
     /\ appointments[i].start_time <= endTime
     /\ appointments[i].end_time >= startTime}

\* the conflict query of handleCreate
ConflictingApts(u, barber, startTime, endTime) ==
  {i \in RowIds(appointments) :
     /\ appointments[i].unit_id = u
     /\ appointments[i].barber_id = barber
     /\ appointments[i].status # "cancelled"
     /\ appointments[i].start_time < endTime
     /\ appointments[i].end_time > startTime}

\* ------------------------------------------------------------------ serve

\* units.evolution_instance_name -> units.id ; 0 when no unit has the name
InstanceUnit(instance_name) == IF instance_name = 1 THEN 1 ELSE 0

\* a key check that only looks for the header
ApiKeyPresent(r) == r.key # ""

\* lines 47-57: the x-api-key header is there and is the configured secret
ApiKeyOk(r) == r.key = "secret"

NeedsUnitLookup(r) == r.instance_name # 0 /\ r.unit_id = 0

\* serve, up to the call of the handler: the rejection, or NoResponse and the
\* body with the resolved unit_id
Enrich(r, unitLookup) ==
  IF ~ApiKeyOk(r) THEN [resp |-> Fail(401, "unauthorized"), body |-> r]
  ELSE IF NeedsUnitLookup(r) /\ unitLookup = "error"
    THEN [resp |-> Fail(500, "unit lookup"), body |-> r]
  ELSE IF NeedsUnitLookup(r) /\ InstanceUnit(r.instance_name) = 0
    THEN [resp |-> Fail(404, "unit not found"), body |-> r]
  ELSE IF NeedsUnitLookup(r)
    THEN [resp |-> NoResponse,
          body |-> [r EXCEPT !.unit_id = InstanceUnit(r.instance_name)]]
  ELSE [resp |-> NoResponse, body |-> r]

Handler(action) ==
  CASE action \in {"check", "check_availability"} -> "handleCheck"
    [] action \in {"create", "schedule_appointment"} -> "handleCreate"
    [] action \in {"cancel", "cancel_appointment"} -> "handleCancel"
    [] action = "check_client" -> "handleCheckClient"
    [] action = "register_client" -> "handleRegisterClient"
    [] OTHER -> "invalid"

\* a validation of create that forgets the service
InvalidNoService(b) ==
  CASE Handler(b.action) = "handleCheck" -> b.date = 0 \/ b.unit_id = 0
    [] Handler(b.action) = "handleCreate" ->
         \/ b.nome = NoText \/ b.barbeiro_nome = NoText
         \/ b.data.zone = "absent" \/ b.unit_id = 0
    [] Handler(b.action) = "handleCancel" ->
         b.unit_id = 0 \/ (b.appointment_id = 0 /\ NormalizePhone(b.telefone) = NoPhone)
    [] Handler(b.action) = "handleCheckClient" ->
         NormalizePhone(b.telefone) = NoPhone \/ b.unit_id = 0
    [] Handler(b.action) = "handleRegisterClient" ->
         b.nome = NoText \/ NormalizePhone(b.telefone) = NoPhone \/ b.unit_id = 0
    [] OTHER -> TRUE

\* the validation each handler makes before its first store call
Invalid(b) ==
  CASE Handler(b.action) = "handleCheck" -> b.date = 0 \/ b.unit_id = 0
    [] Handler(b.action) = "handleCreate" ->
         \/ b.nome = NoText \/ b.barbeiro_nome = NoText \/ b.servico = NoText
         \/ b.data.zone = "absent" \/ b.unit_id = 0
    [] Handler(b.action) = "handleCancel" ->
         b.unit_id = 0 \/ (b.appointment_id = 0 /\ NormalizePhone(b.telefone) = NoPhone)
    [] Handler(b.action) = "handleCheckClient" ->
         NormalizePhone(b.telefone) = NoPhone \/ b.unit_id = 0
    [] Handler(b.action) = "handleRegisterClient" ->
         b.nome = NoText \/ NormalizePhone(b.telefone) = NoPhone \/ b.unit_id = 0
    [] OTHER -> TRUE

\* a request goes to the first free worker (the workers are interchangeable)
Free(p) == pc[p] \in {"idle", "done"}
Idle(p) ==
  /\ Free(p)
  /\ \A q \in 1..(p - 1) : ~Free(q)
  /\ nreq < MaxRequests

\* worker p takes request r and runs it up to the handler's first store call on
\* a table that changes; tag is the handler that must be reached
Accept(p, r, unitLookup, handler) ==
  /\ Idle(p)
  /\ Skipped(NeedsUnitLookup(r) /\ ApiKeyOk(r), unitLookup)
  /\ Enrich(r, unitLookup).resp = NoResponse
  /\ Handler(r.action) = handler
  /\ ~Invalid(Enrich(r, unitLookup).body)
  /\ nreq' = nreq + 1
  /\ req' = [req EXCEPT ![p] = Enrich(r, unitLookup).body]

Finish(p, response) ==
  /\ pc' = [pc EXCEPT ![p] = "done"]
  /\ resp' = [resp EXCEPT ![p] = response]

Goto(p, label) ==
  /\ pc' = [pc EXCEPT ![p] = label]
  /\ resp' = [resp EXCEPT ![p] = NoResponse]

\* a request that is answered before any handler touches the store: 401, a
\* failed unit lookup, an unknown action, a missing field
Reject(p, r) ==
  \E o \in StoreOutcomeSeqs(1) :
    /\ Idle(p)
    /\ Skipped(NeedsUnitLookup(r) /\ ApiKeyOk(r), o[1])
    /\ \/ Enrich(r, o[1]).resp # NoResponse
       \/ Invalid(Enrich(r, o[1]).body)
    /\ nreq' = nreq + 1
    /\ faults' = faults + Errors(o)
    /\ req' = [req EXCEPT ![p] = Enrich(r, o[1]).body]
    /\ loc' = [loc EXCEPT ![p] = NoLocals]
    /\ Finish(p, IF Enrich(r, o[1]).resp # NoResponse
                   THEN Enrich(r, o[1]).resp
                   ELSE Fail(400, "validation"))
    /\ UNCHANGED <<appointments, clients, changes>>

\* ----------------------------------------------------------- handleCreate

RECURSIVE Dedupe(_)
\* [...new Set(tags)]: the first occurrence of every tag, in order
Dedupe(tags) ==
  IF tags = <<>> THEN <<>>
  ELSE LET init == Dedupe(SubSeq(tags, 1, Len(tags) - 1))
           last == tags[Len(tags)]
       IN IF \E i \in 1..Len(init) : init[i] = last THEN init ELSE Append(init, last)

\* body.tags || ['Novo']
ClientTags(b) == IF b.hasTags THEN b.tags ELSE <<"Novo">>

\* an updateData that writes the notes whenever the request has notes
UpdateDataAlwaysNotes(b, existingClient) ==
  LET mergedTags == Dedupe(existingClient.tags \o ClientTags(b))
  IN [hasBirth |-> b.data_nascimento # 0 /\ existingClient.birth_date = 0,
      birth_date |-> b.data_nascimento,
      hasNotes |-> b.observacoes # 0,
      notes |-> b.observacoes,
      hasTags |-> Len(ClientTags(b)) > 0 /\ mergedTags # existingClient.tags,
      tags |-> mergedTags]

\* the updateData of an existing client found by phone
UpdateData(b, existingClient) ==
  LET mergedTags == Dedupe(existingClient.tags \o ClientTags(b))
  IN [hasBirth |-> b.data_nascimento # 0 /\ existingClient.birth_date = 0,
      birth_date |-> b.data_nascimento,
      hasNotes |-> b.observacoes # 0 /\ b.observacoes # existingClient.notes,
      notes |-> b.observacoes,
      hasTags |-> Len(ClientTags(b)) > 0 /\ mergedTags # existingClient.tags,
      tags |-> mergedTags]

Normalized(u) ==
  [u EXCEPT !.birth_date = IF u.hasBirth THEN u.birth_date ELSE 0,
            !.notes = IF u.hasNotes THEN u.notes ELSE 0,
            !.tags = IF u.hasTags THEN u.tags ELSE <<>>]

\* .update(updateData) applied to a row
ApplyUpdate(row, u) ==
  [row EXCEPT !.birth_date = IF u.hasBirth THEN u.birth_date ELSE @,
              !.notes = IF u.hasNotes THEN u.notes ELSE @,
              !.tags = IF u.hasTags THEN u.tags ELSE @]

\* an insert that counts the first contact as a visit
NewClientVisited(b, phone) ==
  [id |-> Len(clients) + 1, unit_id |-> b.unit_id, name |-> b.nome, phone |-> phone,
   birth_date |-> b.data_nascimento, notes |-> b.observacoes, tags |-> ClientTags(b),
   total_visits |-> 1]

\* lines 383-392, 439-448 and 854-863: the row of a client insert
NewClient(b, phone) ==
  [id |-> Len(clients) + 1, unit_id |-> b.unit_id, name |-> b.nome, phone |-> phone,
   birth_date |-> b.data_nascimento, notes |-> b.observacoes, tags |-> ClientTags(b),
   total_visits |-> 0]

\* the client query of handleCreate: by phone when there is one, else by name
\* and, when given, birth date
ClientLookup(b) ==
  IF NormalizePhone(b.telefone) # NoPhone
  THEN ClientsByPhone(b.unit_id, NormalizePhone(b.telefone))
  ELSE ClientsByName(b.unit_id, b.nome, b.data_nascimento)

\* lines 276-377 and 411-434: validation, unit timezone, client lookup
CreateClientFetch(p, r) ==
  \E o \in StoreOutcomeSeqs(3) :
    LET b == Enrich(r, o[1]).body
        phone == NormalizePhone(b.telefone)
        timezone == IF o[2] = "error" \/ b.unit_id \notin Units
                    THEN "America/Sao_Paulo" ELSE UnitTimezone(b.unit_id)
        existingClient == IF o[3] = "error" THEN NullClient
                          ELSE MaybeSingle(clients, ClientLookup(b))
        updateData == Normalized(UpdateData(b, existingClient))
        locals == [NoLocals EXCEPT !.timezone = timezone,
                                   !.existingClient = existingClient]
    IN /\ Accept(p, r, o[1], "handleCreate")
       /\ faults' = faults + Errors(o)
       /\ IF existingClient = NullClient
          THEN /\ loc' = [loc EXCEPT ![p] = locals]
               /\ Goto(p, "clientInsert")
          ELSE IF phone # NoPhone /\ updateData # NoUpdate
          THEN /\ loc' = [loc EXCEPT ![p] = [locals EXCEPT !.updateData = updateData]]
               /\ Goto(p, "clientUpdate")
          ELSE /\ loc' = [loc EXCEPT ![p] = [locals EXCEPT !.clientData = existingClient]]
               /\ Goto(p, "schedule")
       /\ UNCHANGED <<appointments, clients, changes>>

\* lines 358-377: update of the existing client
CreateClientUpdate(p) ==
  \E o \in StoreOutcomeSeqs(1) :
    LET id == loc[p].existingClient.id
        updated == ApplyUpdate(clients[id], loc[p].updateData)
    IN /\ pc[p] = "clientUpdate"
       /\ faults' = faults + Errors(o)
       /\ IF o[1] = "error"
          THEN /\ clients' = clients
               /\ loc' = [loc EXCEPT ![p].clientData = loc[p].existingClient]
          ELSE /\ clients' = [clients EXCEPT ![id] = updated]
               /\ loc' = [loc EXCEPT ![p].clientData = updated]
       /\ Goto(p, "schedule")
       /\ UNCHANGED <<appointments, req, nreq, changes>>

\* a failed client insert that never ends the request
ClientCreateNeverFatal(clientPhone) == FALSE

\* a failed client insert that always ends the request
ClientCreateAlwaysFatal(clientPhone) == TRUE

\* lines 396-405 and 452-455: a failed client insert ends the request with 500
\* when the request has a phone, and is only logged when it has none
ClientCreateFatal(clientPhone) == clientPhone # NoPhone

\* lines 378-410 and 435-460: insert of a new client
CreateClientInsert(p) ==
  \E o \in StoreOutcomeSeqs(1) :
    LET phone == NormalizePhone(req[p].telefone)
        row == NewClient(req[p], phone)
        clientCreateError == o[1] = "error" \/ ~ClientInsertAllowed(row)
    IN /\ pc[p] = "clientInsert"
       /\ faults' = faults + Errors(o)
       /\ IF clientCreateError
          THEN /\ clients' = clients
               /\ loc' = loc
               /\ IF ClientCreateFatal(phone)
                  THEN Finish(p, Fail(500, "client create"))
                  ELSE Goto(p, "schedule")
          ELSE /\ clients' = Append(clients, row)
               /\ loc' = [loc EXCEPT ![p].clientData = row, ![p].clientCreated = TRUE]
               /\ Goto(p, "schedule")
       /\ UNCHANGED <<appointments, req, nreq, changes>>

\* lines 463-532: barber, service, start and end instants, conflict query
CreateSchedule(p) ==
  \E o \in StoreOutcomeSeqs(3) :
    LET b == req[p]
        barbers == IF o[1] = "error" THEN {}
                   ELSE BarbersLike(b.unit_id, Contains(b.barbeiro_nome))
        services == IF o[2] = "error" THEN {}
                    ELSE ServicesLike(b.unit_id, Contains(b.servico))
        startTime == convertLocalToUTC(b.data, loc[p].timezone)
    IN /\ pc[p] = "schedule"
       /\ Skipped(barbers # {}, o[2])
       /\ Skipped(barbers # {} /\ services # {} /\ startTime.ok, o[3])
       /\ faults' = faults + Errors(o)
       /\ IF barbers = {}
          THEN loc' = loc /\ Finish(p, Fail(404, "barber"))
          ELSE IF services = {}
          THEN loc' = loc /\ Finish(p, Fail(404, "service"))
          ELSE IF ~startTime.ok
          THEN loc' = loc /\ Finish(p, Fail(500, "Invalid time value"))
          ELSE \E barber \in barbers, service \in services :
            LET endTime == startTime.t + Services[service].duration_minutes
                conflictingApts == IF o[3] = "error" THEN {}
                                   ELSE ConflictingApts(b.unit_id, barber,
                                                        startTime.t, endTime)
            IN /\ loc' = [loc EXCEPT ![p].barber = barber, ![p].service = service,
                                     ![p].startTime = startTime.t,
                                     ![p].endTime = endTime]
               /\ IF conflictingApts # {}
                  THEN Finish(p, Fail(409, "slot unavailable"))
                  ELSE Goto(p, "insert")
       /\ UNCHANGED <<appointments, clients, req, nreq, changes>>

\* an insert that stores the phone as it was sent
NewAppointmentRawPhone(b, l) ==
  [id |-> Len(appointments) + 1, unit_id |-> b.unit_id, barber_id |-> l.barber,
   service_id |-> l.service, client_name |-> b.nome,
   client_phone |-> b.telefone, start_time |-> l.startTime,
   end_time |-> l.endTime, total_price |-> Services[l.service].price,
   status |-> "pending"]

\* lines 537-548: the row of the insert
NewAppointment(b, l) ==
  [id |-> Len(appointments) + 1, unit_id |-> b.unit_id, barber_id |-> l.barber,
   service_id |-> l.service, client_name |-> b.nome,
   client_phone |-> NormalizePhone(b.telefone), start_time |-> l.startTime,
   end_time |-> l.endTime, total_price |-> Services[l.service].price,
   status |-> "pending"]

\* an insert whose row is kept although the request is answered with the error
CreateInsertHalfCommitted(p) ==
  \E o \in StoreOutcomeSeqs(1) :
    /\ pc[p] = "insert"
    /\ faults' = faults + Errors(o)
    /\ appointments' = Append(appointments, NewAppointment(req[p], loc[p]))
    /\ IF o[1] = "error"
       THEN Finish(p, Fail(500, "appointment create"))
       ELSE Finish(p, Ok([NoResponse EXCEPT !.appointment = Len(appointments) + 1,
                                            !.client = loc[p].clientData]))
    /\ UNCHANGED <<clients, req, loc, nreq, changes>>

\* an insert that is tried again when the store refuses it
CreateInsertRetrying(p) ==
  \E o \in StoreOutcomeSeqs(1) :
    /\ pc[p] = "insert"
    /\ faults' = faults + Errors(o)
    /\ IF o[1] = "error"
       THEN /\ appointments' = appointments
            /\ Goto(p, "insert")
       ELSE /\ appointments' = Append(appointments, NewAppointment(req[p], loc[p]))
            /\ Finish(p, Ok([NoResponse EXCEPT !.appointment = Len(appointments) + 1,
                                               !.client = loc[p].clientData]))
    /\ UNCHANGED <<clients, req, loc, nreq, changes>>

\* lines 534-589: insert of the appointment
CreateInsert(p) ==
  \E o \in StoreOutcomeSeqs(1) :
    /\ pc[p] = "insert"
    /\ faults' = faults + Errors(o)
    /\ IF o[1] = "error"
       THEN /\ appointments' = appointments
            /\ Finish(p, Fail(500, "appointment create"))
       ELSE /\ appointments' = Append(appointments, NewAppointment(req[p], loc[p]))
            /\ Finish(p, Ok([NoResponse EXCEPT !.appointment = Len(appointments) + 1,
                                               !.client = loc[p].clientData]))
    /\ UNCHANGED <<clients, req, loc, nreq, changes>>

\* ----------------------------------------------------------- handleCancel

\* an update by id that does not look at the unit
UpdatedByIdAnyUnit(b) ==
  {i \in RowIds(appointments) :
     /\ i = b.appointment_id
     /\ appointments[i].status \in {"pending", "confirmed"}}

\* an update by id that does not look at the status
UpdatedByIdAnyStatus(b) ==
  {i \in RowIds(appointments) :
     /\ i = b.appointment_id
     /\ appointments[i].unit_id = b.unit_id}

\* lines 619-625: the rows the update of a cancel by id matches
UpdatedById(b) ==
  {i \in RowIds(appointments) :
     /\ i = b.appointment_id
     /\ appointments[i].unit_id = b.unit_id
     /\ appointments[i].status \in {"pending", "confirmed"}}

\* lines 592-652: cancel by appointment id, one conditional update
CancelById(p, r) ==
  \E o \in StoreOutcomeSeqs(2) :
    LET b == Enrich(r, o[1]).body
        cancelled == UpdatedById(b)
    IN /\ Accept(p, r, o[1], "handleCancel")
       /\ b.appointment_id # 0
       /\ faults' = faults + Errors(o)
       /\ loc' = [loc EXCEPT ![p] = NoLocals]
       /\ IF o[2] = "error"
          THEN /\ appointments' = appointments
               /\ Finish(p, Fail(500, "cancel"))
          ELSE IF cancelled = {}
          THEN /\ appointments' = appointments
               /\ Finish(p, Fail(404, "not found or already cancelled"))
          ELSE /\ appointments' =
                    [i \in RowIds(appointments) |->
                       IF i \in cancelled
                       THEN [appointments[i] EXCEPT !.status = "cancelled"]
                       ELSE appointments[i]]
               /\ Finish(p, Ok([NoResponse EXCEPT !.appointment = b.appointment_id]))
       /\ UNCHANGED <<clients, changes>>

\* the instants new Date() may return during a behaviour
NowValues == {1 * DayMinutes, 1 * DayMinutes + 13 * 60 + 10}

\* the rows the phone query of handleCancel selects before order and limit
CancelCandidates(b, now) ==
  {i \in RowIds(appointments) :
     /\ appointments[i].unit_id = b.unit_id
     /\ appointments[i].client_phone = NormalizePhone(b.telefone)
     /\ appointments[i].status \in {"pending", "confirmed"}
     /\ IF b.data.zone # "absent"
        THEN /\ appointments[i].start_time >= ParseServerLocal(b.data.day, 0)
             /\ appointments[i].start_time < ParseServerLocal(b.data.day, DayMinutes)
        ELSE appointments[i].start_time >= now}

\* the order descending
Latest(ids) ==
  {i \in ids : \A j \in ids : appointments[i].start_time >= appointments[j].start_time}

\* .order('start_time', ascending).limit(1): a row of least start_time
Soonest(ids) ==
  {i \in ids : \A j \in ids : appointments[i].start_time <= appointments[j].start_time}

\* lines 654-687: cancel by phone, the lookup
CancelFind(p, r) ==
  \E o \in StoreOutcomeSeqs(2), now \in NowValues :
    LET b == Enrich(r, o[1]).body
        findError == o[2] = "error" \/ (b.data.zone # "absent" /\ ~b.data.ok)
        foundAppointment == IF findError THEN {} ELSE Soonest(CancelCandidates(b, now))
    IN /\ Accept(p, r, o[1], "handleCancel")
       /\ b.appointment_id = 0
       /\ faults' = faults + Errors(o)
       /\ IF foundAppointment = {}
          THEN /\ loc' = [loc EXCEPT ![p] = [NoLocals EXCEPT !.now = now]]
               /\ Finish(p, Fail(404, IF b.data.zone # "absent"
                                      THEN "none on that date" ELSE "no future one"))
          ELSE \E id \in foundAppointment :
                 /\ loc' = [loc EXCEPT ![p] = [NoLocals EXCEPT !.found = id, !.now = now]]
                 /\ Goto(p, "cancelUpdate")
       /\ UNCHANGED <<appointments, clients, changes>>

\* an update of cancel that also blanks the client snapshot of the row
CancelUpdateClearing(p) ==
  \E o \in StoreOutcomeSeqs(1) :
    /\ pc[p] = "cancelUpdate"
    /\ faults' = faults + Errors(o)
    /\ IF o[1] = "error"
       THEN /\ appointments' = appointments
            /\ Finish(p, Fail(500, "cancel"))
       ELSE /\ appointments' = [appointments EXCEPT ![loc[p].found].status = "cancelled",
                                                    ![loc[p].found].client_name = NoText,
                                                    ![loc[p].found].client_phone = NoPhone]
            /\ Finish(p, Ok([NoResponse EXCEPT !.appointment = loc[p].found]))
    /\ UNCHANGED <<clients, req, loc, nreq, changes>>

\* lines 691-716: cancel by phone, the update of the row found
CancelUpdate(p) ==
  \E o \in StoreOutcomeSeqs(1) :
    /\ pc[p] = "cancelUpdate"
    /\ faults' = faults + Errors(o)
    /\ IF o[1] = "error"
       THEN /\ appointments' = appointments
            /\ Finish(p, Fail(500, "cancel"))
       ELSE /\ appointments' = [appointments EXCEPT ![loc[p].found].status = "cancelled"]
            /\ Finish(p, Ok([NoResponse EXCEPT !.appointment = loc[p].found]))
    /\ UNCHANGED <<clients, req, loc, nreq, changes>>

\* ------------------------------------------------------------ handleCheck

openingHour == 8
closingHour == 21

\* a grid whose hour loop runs up to and including the closing hour
GridToClosing == [k \in 1..(2 * (closingHour - openingHour + 1)) |->
                    (openingHour + (k - 1) \div 2) * 60 + ((k - 1) % 2) * 30]

\* the (hour, minute) grid of lines 236-237 as minutes of the day, ascending
Grid == [k \in 1..(2 * (closingHour - openingHour)) |->
           (openingHour + (k - 1) \div 2) * 60 + ((k - 1) % 2) * 30]

RECURSIVE SetToSeq(_)
\* the rows of a query in table order
SetToSeq(ids) ==
  IF ids = {} THEN <<>>
  ELSE LET least == CHOOSE i \in ids : \A j \in ids : i <= j
       IN <<least>> \o SetToSeq(ids \ {least})

\* the appointments query of handleCheck
DayAppointments(u, date) ==
  {i \in RowIds(appointments) :
     /\ appointments[i].unit_id = u
     /\ appointments[i].start_time >= ParseServerLocal(date, 0)
     /\ appointments[i].start_time < ParseServerLocal(date, DayMinutes)
     /\ appointments[i].status # "cancelled"}

\* a slot taken only by an appointment that starts at it
isOccupiedAtStart(apts, barber, slotStart) ==
  \E i \in apts :
    /\ appointments[i].barber_id = barber
    /\ slotStart = appointments[i].start_time

\* lines 243-248
isOccupied(apts, barber, slotStart) ==
  \E i \in apts :
    /\ appointments[i].barber_id = barber
    /\ slotStart >= appointments[i].start_time
    /\ slotStart < appointments[i].end_time

\* the loops the other way round: over the barbers and, inside, over the grid
availableSlotsByBarber(barbers, apts, date) ==
  LET g == Len(Grid)
      candidates == [j \in 1..(g * Len(barbers)) |->
                       [time |-> Grid[((j - 1) % g) + 1],
                        datetime |-> ParseServerLocal(date, Grid[((j - 1) % g) + 1]),
                        barber_id |-> barbers[((j - 1) \div g) + 1]]]
  IN SelectSeq(candidates, LAMBDA c : ~isOccupied(apts, c.barber_id, c.datetime))

\* lines 236-260: the loop over the grid and, inside, over the barbers; the
\* slots pushed, in the order of the pushes
availableSlots(barbers, apts, date) ==
  LET n == Len(barbers)
      candidates == [j \in 1..(Len(Grid) * n) |->
                       [time |-> Grid[((j - 1) \div n) + 1],
                        datetime |-> ParseServerLocal(date, Grid[((j - 1) \div n) + 1]),
                        barber_id |-> barbers[((j - 1) % n) + 1]]]
  IN SelectSeq(candidates, LAMBDA c : ~isOccupied(apts, c.barber_id, c.datetime))

IsBlank(text) == \A i \in 1..Len(text) : text[i] = " "

\* the barbers query of handleCheck
CheckBarbers(b) ==
  BarbersLike(b.unit_id, IF IsBlank(b.professional) THEN <<"%">>
                         ELSE Contains(b.professional))

\* lines 148-273; the services list of the response is left out
Check(p, r) ==
  \E o \in StoreOutcomeSeqs(3) :
    LET b == Enrich(r, o[1]).body
        barbers == SetToSeq(CheckBarbers(b))
        apts == IF o[3] = "error" THEN {} ELSE DayAppointments(b.unit_id, b.date)
    IN /\ Accept(p, r, o[1], "handleCheck")
       /\ Skipped(o[2] = "ok" /\ barbers # <<>>, o[3])
       /\ faults' = faults + Errors(o)
       /\ loc' = [loc EXCEPT ![p] = NoLocals]
       /\ IF o[2] = "error"
          THEN Finish(p, Fail(500, "barbers"))
          ELSE IF barbers = <<>>
          THEN Finish(p, Ok([NoResponse EXCEPT !.error = "no barber"]))
          ELSE Finish(p, Ok([NoResponse EXCEPT
                               !.slots = availableSlots(barbers, apts, b.date)]))
       /\ UNCHANGED <<appointments, clients, changes>>

\* ------------------------------------- handleCheckClient, handleRegisterClient

\* a client query that counts itself as a visit of the client found
CheckClientCounting(p, r) ==
  \E o \in StoreOutcomeSeqs(2) :
    LET b == Enrich(r, o[1]).body
        ids == ClientsByPhone(b.unit_id, NormalizePhone(b.telefone))
    IN /\ Accept(p, r, o[1], "handleCheckClient")
       /\ faults' = faults + Errors(o)
       /\ loc' = [loc EXCEPT ![p] = NoLocals]
       /\ IF o[2] = "error" \/ MaybeSingleError(ids)
          THEN Finish(p, Fail(500, "client lookup"))
          ELSE Finish(p, Ok([NoResponse EXCEPT !.client = MaybeSingle(clients, ids)]))
       /\ clients' = [i \in RowIds(clients) |->
                        IF i \in ids /\ o[2] = "ok"
                        THEN [clients[i] EXCEPT !.total_visits = @ + 1]
                        ELSE clients[i]]
       /\ UNCHANGED <<appointments, changes>>

\* lines 719-787
CheckClient(p, r) ==
  \E o \in StoreOutcomeSeqs(2) :
    LET b == Enrich(r, o[1]).body
        ids == ClientsByPhone(b.unit_id, NormalizePhone(b.telefone))
    IN /\ Accept(p, r, o[1], "handleCheckClient")
       /\ faults' = faults + Errors(o)
       /\ loc' = [loc EXCEPT ![p] = NoLocals]
       /\ IF o[2] = "error" \/ MaybeSingleError(ids)
          THEN Finish(p, Fail(500, "client lookup"))
          ELSE Finish(p, Ok([NoResponse EXCEPT !.client = MaybeSingle(clients, ids)]))
       /\ UNCHANGED <<appointments, clients, changes>>

\* lines 790-849: the lookup of handleRegisterClient
RegisterFetch(p, r) ==
  \E o \in StoreOutcomeSeqs(2) :
    LET b == Enrich(r, o[1]).body
        ids == ClientsByPhone(b.unit_id, NormalizePhone(b.telefone))
    IN /\ Accept(p, r, o[1], "handleRegisterClient")
       /\ faults' = faults + Errors(o)
       /\ loc' = [loc EXCEPT ![p] = NoLocals]
       /\ IF o[2] = "error" \/ MaybeSingleError(ids)
          THEN Finish(p, Fail(500, "client check"))
          ELSE IF ids # {}
          THEN Finish(p, [Fail(409, "already registered") EXCEPT
                            !.client = MaybeSingle(clients, ids)])
          ELSE Goto(p, "registerInsert")
       /\ UNCHANGED <<appointments, clients, changes>>

\* lines 851-893: the insert of handleRegisterClient
RegisterInsert(p) ==
  \E o \in StoreOutcomeSeqs(1) :
    LET row == NewClient(req[p], NormalizePhone(req[p].telefone))
    IN /\ pc[p] = "registerInsert"
       /\ faults' = faults + Errors(o)
       /\ IF o[1] = "error" \/ ~ClientInsertAllowed(row)
          THEN /\ clients' = clients
               /\ Finish(p, Fail(500, "client create"))
          ELSE /\ clients' = Append(clients, row)
               /\ Finish(p, Ok([NoResponse EXCEPT !.client = row]))
       /\ UNCHANGED <<appointments, req, loc, nreq, changes>>

\* ------------------------------------------------------- the administration

\* the status changes made outside this function: confirm, complete
SetStatus(i, status) ==
  /\ changes < MaxStatusChanges
  /\ i \in RowIds(appointments)
  /\ appointments[i].status \in {"pending", "confirmed"}
  /\ appointments[i].status # status
  /\ appointments' = [appointments EXCEPT ![i].status = status]
  /\ changes' = changes + 1
  /\ UNCHANGED <<clients, pc, req, loc, resp, nreq, faults>>

\* -------------------------------------------------------------- requests

Body(action) == [NoRequest EXCEPT !.action = action, !.key = "secret", !.unit_id = 1]

CreateBody(nome, telefone, data, barbeiro, servico) ==
  [Body("create") EXCEPT !.nome = nome, !.telefone = telefone, !.data = data,
                         !.barbeiro_nome = barbeiro, !.servico = servico]

\* One client, three spellings of the phone. Local 10:00 to 10:30 with barber Jo;
\* local 10:15 to 10:45 with Jo or Bo (the name matches both); local 10:30 to
\* 11:30 with Jo.
CreateA ==
  CreateBody(<<"A", "n">>, <<"(", "1", ")">>, Stamp(1, 600, ""), <<"j", "o">>, <<"c", "o">>)
CreateB ==
  [CreateBody(<<"A", "n">>, <<"1">>, Stamp(1, 615, ""), <<"o">>, <<"C", "o">>)
     EXCEPT !.action = "schedule_appointment", !.hasTags = TRUE, !.tags = <<"VIP">>]
CreateC ==
  CreateBody(<<"A", "n">>, <<"1", "-">>, Stamp(1, 630, ""), <<"J", "O">>, <<"b", "a">>)

CancelOne == [Body("cancel") EXCEPT !.appointment_id = 1]
CancelPhone == [Body("cancel_appointment") EXCEPT !.telefone = <<"1">>]
CheckDay == [Body("check") EXCEPT !.date = 1]
WrongKey == [Body("check") EXCEPT !.key = "wrong"]
Register ==
  [Body("register_client") EXCEPT !.telefone = <<"1", " ">>, !.nome = <<"A", "n">>]

Requests ==
  {CreateA, CreateB, CreateC, CancelOne, CancelPhone, CheckDay, WrongKey, Register}

\* ------------------------------------------------------------ specification

Init ==
  /\ appointments = <<>>
  /\ clients = <<>>
  /\ pc = [p \in Procs |-> "idle"]
  /\ req = [p \in Procs |-> NoRequest]
  /\ loc = [p \in Procs |-> NoLocals]
  /\ resp = [p \in Procs |-> NoResponse]
  /\ nreq = 0
  /\ faults = 0
  /\ changes = 0

\* create, cancel and check requests served concurrently
Next ==
  \/ \E p \in Procs, r \in Requests : Reject(p, r)
  \/ \E p \in Procs, r \in Requests : CreateClientFetch(p, r)
  \/ \E p \in Procs : CreateClientUpdate(p)
  \/ \E p \in Procs : CreateClientInsert(p)
  \/ \E p \in Procs : CreateSchedule(p)
  \/ \E p \in Procs : CreateInsert(p)
  \/ \E p \in Procs, r \in Requests : CancelById(p, r)
  \/ \E p \in Procs, r \in Requests : CancelFind(p, r)
  \/ \E p \in Procs : CancelUpdate(p)
  \/ \E p \in Procs, r \in Requests : Check(p, r)
  \/ \E p \in Procs, r \in Requests : RegisterFetch(p, r)
  \/ \E p \in Procs : RegisterInsert(p)

Spec == Init /\ [][Next]_vars

CancelElsewhere == [CancelOne EXCEPT !.unit_id = 2]
CancelMissing == [CancelOne EXCEPT !.appointment_id = 3]

StatusRequests == {CreateA, CreateB, CancelOne, CancelElsewhere, CancelMissing, CancelPhone}

\* create and cancel requests served while the administration confirms and
\* completes appointments
NextStatus ==
  \/ \E p \in Procs, r \in StatusRequests : CreateClientFetch(p, r)
  \/ \E p \in Procs : CreateClientUpdate(p)
  \/ \E p \in Procs : CreateClientInsert(p)
  \/ \E p \in Procs : CreateSchedule(p)
  \/ \E p \in Procs : CreateInsert(p)
  \/ \E p \in Procs, r \in StatusRequests : CancelById(p, r)
  \/ \E p \in Procs, r \in StatusRequests : CancelFind(p, r)
  \/ \E p \in Procs : CancelUpdate(p)
  \/ \E i \in 1..MaxRequests, status \in {"confirmed", "completed"} : SetStatus(i, status)

SpecStatus == Init /\ [][NextStatus]_vars

\* One client known by the phone 1, sent with different birth dates, notes and
\* tags; the same name without a phone; a registration and a client query.
CreateVip ==
  [CreateA EXCEPT !.telefone = <<"1">>, !.data_nascimento = 5, !.observacoes = 7,
                  !.hasTags = TRUE, !.tags = <<"VIP">>]
CreateGold ==
  [CreateA EXCEPT !.telefone = <<"1">>, !.data_nascimento = 6, !.observacoes = 8,
                  !.hasTags = TRUE, !.tags = <<"Gold">>]
CreateNoPhone == [CreateA EXCEPT !.telefone = <<"-">>]
RegisterFull ==
  [Register EXCEPT !.data_nascimento = 9, !.hasTags = TRUE, !.tags = <<"Gold">>]
CheckClientPhone == [Body("check_client") EXCEPT !.telefone = <<"1">>]

ClientRequests ==
  {CreateA, CreateVip, CreateGold, CreateNoPhone, RegisterFull, CheckClientPhone}

\* create, register_client and check_client requests served concurrently
NextClients ==
  \/ \E p \in Procs, r \in ClientRequests : CreateClientFetch(p, r)
  \/ \E p \in Procs : CreateClientUpdate(p)
  \/ \E p \in Procs : CreateClientInsert(p)
  \/ \E p \in Procs : CreateSchedule(p)
  \/ \E p \in Procs : CreateInsert(p)
  \/ \E p \in Procs, r \in ClientRequests : RegisterFetch(p, r)
  \/ \E p \in Procs : RegisterInsert(p)
  \/ \E p \in Procs, r \in ClientRequests : CheckClient(p, r)

SpecClients == Init /\ [][NextClients]_vars

\* Appointments late in the evening of local day 0 and of local day 1 (the next
\* day in UTC), one in the morning of local day 1, and a cancel by phone with
\* the target date day 1.
CreateEve ==
  CreateBody(<<"A", "n">>, <<"1">>, Stamp(0, 22 * 60, ""), <<"j", "o">>, <<"c", "o">>)
CreateLate ==
  [CreateBody(<<"A", "n">>, <<"1">>, Stamp(1, 22 * 60, ""), <<"j", "o">>, <<"c", "o">>)
     EXCEPT !.hasTags = TRUE, !.tags = <<"VIP">>]
CancelOnDay ==
  [Body("cancel") EXCEPT !.telefone = <<"1">>, !.data = Stamp(1, 0, "")]

DayRequests == {CreateA, CreateEve, CreateLate, CancelOnDay, CheckDay}

\* create, cancel with a target date and check requests served concurrently
NextDay ==
  \/ \E p \in Procs, r \in DayRequests : CreateClientFetch(p, r)
  \/ \E p \in Procs : CreateClientUpdate(p)
  \/ \E p \in Procs : CreateClientInsert(p)
  \/ \E p \in Procs : CreateSchedule(p)
  \/ \E p \in Procs : CreateInsert(p)
  \/ \E p \in Procs, r \in DayRequests : CancelFind(p, r)
  \/ \E p \in Procs : CancelUpdate(p)
  \/ \E p \in Procs, r \in DayRequests : Check(p, r)

SpecDay == Init /\ [][NextDay]_vars

\* The same wall clock time sent without zone to the units in America/Sao_Paulo,
\* America/Lima (not in the offset table) and America/Manaus, sent with Z to
\* two of them, sent with +01:00, and a timestamp that is no date.
CreateIn(u, zone) ==
  [CreateBody(<<"A", "n">>, <<"1">>, Stamp(1, 600, zone), <<"j", "o">>, <<"c", "o">>)
     EXCEPT !.unit_id = u]
CreateBadTime ==
  [CreateBody(<<"A", "n">>, <<"1">>, BadStamp, <<"j", "o">>, <<"c", "o">>)
     EXCEPT !.hasTags = TRUE, !.tags = <<"VIP">>]

TimeRequests ==
  {CreateIn(1, ""), CreateIn(2, ""), CreateIn(3, ""), CreateIn(1, "Z"),
   CreateIn(3, "Z"), CreateIn(2, "+01:00"), CreateBadTime}

\* create requests with timestamps of every form
NextTime ==
  \/ \E p \in Procs, r \in TimeRequests : CreateClientFetch(p, r)
  \/ \E p \in Procs : CreateClientUpdate(p)
  \/ \E p \in Procs : CreateClientInsert(p)
  \/ \E p \in Procs : CreateSchedule(p)
  \/ \E p \in Procs : CreateInsert(p)

SpecTime == Init /\ [][NextTime]_vars

\* Barber and service names that match an inactive row only, a barber name
\* with the pattern character _, a unit with one barber, and checks with and
\* without a filter on the barber's name.
CreateInactiveBarber ==
  CreateBody(<<"A", "n">>, <<"1">>, Stamp(1, 600, ""), <<"a", "l">>, <<"c", "o">>)
CreateInactiveService ==
  CreateBody(<<"A", "n">>, <<"1">>, Stamp(1, 600, ""), <<"j", "o">>, <<"l", "a">>)
CreateWild ==
  [CreateBody(<<"A", "n">>, <<"1">>, Stamp(1, 630, ""), <<"j", "_">>, <<"c", "o">>)
     EXCEPT !.hasTags = TRUE, !.tags = <<"VIP">>]
CheckBarber == [CheckDay EXCEPT !.professional = <<"B">>]

StaffRequests ==
  {CreateA, CreateIn(2, ""), CreateInactiveBarber, CreateInactiveService, CreateWild,
   CheckDay, CheckBarber, CheckClientPhone}

\* create, check and check_client requests served concurrently
NextStaff ==
  \/ \E p \in Procs, r \in StaffRequests : CreateClientFetch(p, r)
  \/ \E p \in Procs : CreateClientUpdate(p)
  \/ \E p \in Procs : CreateClientInsert(p)
  \/ \E p \in Procs : CreateSchedule(p)
  \/ \E p \in Procs : CreateInsert(p)
  \/ \E p \in Procs, r \in StaffRequests : Check(p, r)
  \/ \E p \in Procs, r \in StaffRequests : CheckClient(p, r)

SpecStaff == Init /\ [][NextStaff]_vars

\* Requests that lack a required field or name no action, requests with a
\* wrong and with no key, requests that name the unit by its instance, and the
\* valid requests that fill the tables.
UnknownAction == Body("reschedule")
CheckNoDate == Body("check")
CheckNoUnit == [CheckDay EXCEPT !.unit_id = 0]
CreateNoService == [CreateA EXCEPT !.servico = NoText]
CancelNothing == [Body("cancel") EXCEPT !.telefone = <<"-">>]
RegisterNoPhone == [Body("register_client") EXCEPT !.nome = <<"A", "n">>]
WrongKeyCreate == [CreateA EXCEPT !.key = "wrong"]
NoKeyCancel == [CancelOne EXCEPT !.key = ""]
CheckUnknownInstance == [CheckDay EXCEPT !.unit_id = 0, !.instance_name = 2]
RegisterByInstance ==
  [Register EXCEPT !.unit_id = 0, !.instance_name = 1, !.hasTags = TRUE,
                   !.tags = <<"VIP">>]

ServeRequests ==
  {UnknownAction, CheckNoDate, CheckNoUnit, CreateNoService, CancelNothing,
   RegisterNoPhone, WrongKeyCreate, NoKeyCancel, CheckUnknownInstance,
   RegisterByInstance, CreateA, CancelOne}

\* requests that serve answers itself, among requests that reach a handler
NextServe ==
  \/ \E p \in Procs, r \in ServeRequests : Reject(p, r)
  \/ \E p \in Procs, r \in ServeRequests : CreateClientFetch(p, r)
  \/ \E p \in Procs : CreateClientUpdate(p)
  \/ \E p \in Procs : CreateClientInsert(p)
  \/ \E p \in Procs : CreateSchedule(p)
  \/ \E p \in Procs : CreateInsert(p)
  \/ \E p \in Procs, r \in ServeRequests : CancelById(p, r)
  \/ \E p \in Procs, r \in ServeRequests : RegisterFetch(p, r)
  \/ \E p \in Procs : RegisterInsert(p)

SpecServe == Init /\ [][NextServe]_vars

\* Creates that find their barber and service and creates that do not, cancels,
\* a check, a registration and a request without the key.
LiveRequests ==
  {CreateA, CreateB, CreateInactiveBarber, CreateInactiveService, CancelOne,
   CancelPhone, CheckDay, Register, WrongKey}

NextLive ==
  \/ \E p \in Procs, r \in LiveRequests : Reject(p, r)
  \/ \E p \in Procs, r \in LiveRequests : CreateClientFetch(p, r)
  \/ \E p \in Procs : CreateClientUpdate(p)
  \/ \E p \in Procs : CreateClientInsert(p)
  \/ \E p \in Procs : CreateSchedule(p)
  \/ \E p \in Procs : CreateInsert(p)
  \/ \E p \in Procs, r \in LiveRequests : CancelById(p, r)
  \/ \E p \in Procs, r \in LiveRequests : CancelFind(p, r)
  \/ \E p \in Procs : CancelUpdate(p)
  \/ \E p \in Procs, r \in LiveRequests : Check(p, r)
  \/ \E p \in Procs, r \in LiveRequests : RegisterFetch(p, r)
  \/ \E p \in Procs : RegisterInsert(p)

\* the next store call of the handler that worker p runs
Continue(p) ==
  \/ CreateClientUpdate(p)
  \/ CreateClientInsert(p)
  \/ CreateSchedule(p)
  \/ CreateInsert(p)
  \/ CancelUpdate(p)
  \/ RegisterInsert(p)

\* every store call awaited by a handler returns, with rows or with an error
SpecLive == Init /\ [][NextLive]_vars /\ \A p \in Procs : WF_vars(Continue(p))

SerialRequests == {CreateA, CreateB, CreateC, CancelOne, CancelPhone}

\* create and cancel requests served one at a time: the one worker takes the
\* next request when it has answered the last
NextSerial ==
  \/ \E r \in SerialRequests : CreateClientFetch(1, r)
  \/ CreateClientUpdate(1)
  \/ CreateClientInsert(1)
  \/ CreateSchedule(1)
  \/ CreateInsert(1)
  \/ \E r \in SerialRequests : CancelById(1, r)
  \/ \E r \in SerialRequests : CancelFind(1, r)
  \/ CancelUpdate(1)

SpecSerial == Init /\ [][NextSerial]_vars

\* The tables after an earlier create for another client: barber Jo of unit 1 is
\* booked on day 1 from 07:00 to 07:30 of the unit's clock (10:00Z to 10:30Z).
InitBooked ==
  /\ appointments =
       << [id |-> 1, unit_id |-> 1, barber_id |-> 1, service_id |-> 1,
           client_name |-> <<"B", "a">>, client_phone |-> <<"2">>,
           start_time |-> DayMinutes + 10 * 60, end_time |-> DayMinutes + 10 * 60 + 30,
           total_price |-> 40, status |-> "pending"] >>
  /\ clients =
       << [id |-> 1, unit_id |-> 1, name |-> <<"B", "a">>, phone |-> <<"2">>,
           birth_date |-> 0, notes |-> 0, tags |-> <<"Novo">>, total_visits |-> 0] >>
  /\ pc = [p \in Procs |-> "idle"]
  /\ req = [p \in Procs |-> NoRequest]
  /\ loc = [p \in Procs |-> NoLocals]
  /\ resp = [p \in Procs |-> NoResponse]
  /\ nreq = 0
  /\ faults = 0
  /\ changes = 0

CancelTwo == [Body("cancel") EXCEPT !.appointment_id = 2]

FreedRequests == {CreateA, CreateB, CancelTwo, CancelPhone, CheckDay}

\* creates, cancels of what they booked, and checks, served concurrently
NextFreed ==
  \/ \E p \in Procs, r \in FreedRequests : CreateClientFetch(p, r)
  \/ \E p \in Procs : CreateClientUpdate(p)
  \/ \E p \in Procs : CreateClientInsert(p)
  \/ \E p \in Procs : CreateSchedule(p)
  \/ \E p \in Procs : CreateInsert(p)
  \/ \E p \in Procs, r \in FreedRequests : CancelById(p, r)
  \/ \E p \in Procs, r \in FreedRequests : CancelFind(p, r)
  \/ \E p \in Procs : CancelUpdate(p)
  \/ \E p \in Procs, r \in FreedRequests : Check(p, r)

SpecFreed == InitBooked /\ [][NextFreed]_vars

\* Creates that succeed and creates that end in each failure: no barber, no
\* service, no free slot (the same create twice), no valid timestamp, an insert
\* that the store refuses.
FailRequests ==
  {CreateA, CreateInactiveBarber, CreateInactiveService, CreateBadTime}

NextFail ==
  \/ \E p \in Procs, r \in FailRequests : CreateClientFetch(p, r)
  \/ \E p \in Procs : CreateClientUpdate(p)
  \/ \E p \in Procs : CreateClientInsert(p)
  \/ \E p \in Procs : CreateSchedule(p)
  \/ \E p \in Procs : CreateInsert(p)

SpecFail == Init /\ [][NextFail]_vars

\* One phone known in two units: creates in unit 1 and in unit 2, a
\* registration in unit 2, and cancels sent for unit 2 by the id of an
\* appointment and by the phone.
CancelPhoneElsewhere == [CancelPhone EXCEPT !.unit_id = 2]
RegisterElsewhere ==
  [Register EXCEPT !.unit_id = 2, !.hasTags = TRUE, !.tags = <<"VIP">>]

UnitRequests ==
  {CreateA, CreateIn(2, ""), CancelElsewhere, CancelPhoneElsewhere, RegisterElsewhere}

NextUnits ==
  \/ \E p \in Procs, r \in UnitRequests : CreateClientFetch(p, r)
  \/ \E p \in Procs : CreateClientUpdate(p)
  \/ \E p \in Procs : CreateClientInsert(p)
  \/ \E p \in Procs : CreateSchedule(p)
  \/ \E p \in Procs : CreateInsert(p)
  \/ \E p \in Procs, r \in UnitRequests : CancelById(p, r)
  \/ \E p \in Procs, r \in UnitRequests : CancelFind(p, r)
  \/ \E p \in Procs : CancelUpdate(p)
  \/ \E p \in Procs, r \in UnitRequests : RegisterFetch(p, r)
  \/ \E p \in Procs : RegisterInsert(p)

SpecUnits == Init /\ [][NextUnits]_vars

\* ================================================================ claims

\* worker p takes a request in this step
Accepts(p) == nreq' = nreq + 1 /\ Idle(p)
\* worker p leaves the store call `label` in this step
Leaves(p, label) == pc[p] = label /\ pc'[p] # label
\* no store call fails in this step
NoFault == faults' = faults

Active(i) == appointments[i].status # "cancelled"
Open(i) == appointments[i].status \in {"pending", "confirmed"}

\* the non-cancelled appointments of a barber that intersect [from, to)
Intersecting(barber, from, to) ==
  {i \in RowIds(appointments) :
     /\ appointments[i].barber_id = barber
     /\ Active(i)
     /\ appointments[i].start_time < to
     /\ appointments[i].end_time > from}

\* C1: no two distinct non-cancelled appointments of one barber overlap, in
\* every reachable state; stated for the behaviours in which no store call
\* fails, where it is violated all the same.
C1_NoOverlap ==
  faults = 0 =>
    \A i, j \in RowIds(appointments) :
      (i # j /\ appointments[i].barber_id = appointments[j].barber_id
         /\ Active(i) /\ Active(j))
      => ~(appointments[i].start_time < appointments[j].end_time
           /\ appointments[j].start_time < appointments[i].end_time)

\* C2: the overlap check and the insert of create are one atomic step: when a
\* create inserts its appointment, no non-cancelled appointment of the barber
\* intersects it (no store call having failed).
C2_AtomicCheckInsert ==
  [][\A p \in Procs :
       (Leaves(p, "insert") /\ resp'[p].success /\ faults' = 0)
       => Intersecting(loc[p].barber, loc[p].startTime, loc[p].endTime) = {}]_vars

\* C3: a create whose interval intersects a non-cancelled appointment of the
\* resolved barber when the conflict query runs is answered 409, and no step
\* of a create other than its final insert changes the appointments table.
C3_ConflictRejected ==
  [][\A p \in Procs :
       /\ (Leaves(p, "schedule") /\ NoFault /\ loc'[p].barber # 0
             /\ Intersecting(loc'[p].barber, loc'[p].startTime, loc'[p].endTime) # {})
          => (pc'[p] = "done" /\ resp'[p].status = 409 /\ ~resp'[p].success
                /\ appointments' = appointments)
       /\ (pc'[p] # pc[p] /\ pc[p] # "insert" /\ Handler(req'[p].action) = "handleCreate")
          => appointments' = appointments]_vars

C3_Witness ==
  \E p \in Procs :
    /\ pc[p] = "done"
    /\ resp[p].status = 409
    /\ Intersecting(loc[p].barber, loc[p].startTime, loc[p].endTime) # {}
    /\ \A i \in RowIds(appointments) :
         appointments[i].start_time # loc[p].startTime

\* C4: with barber and service resolved and the conflict query answered, create
\* is rejected as unavailable exactly when a non-cancelled appointment of the
\* same barber has start < end of the request and end > start of the request.
C4_RejectIffOverlap ==
  [][\A p \in Procs :
       (Leaves(p, "schedule") /\ NoFault /\ loc'[p].barber # 0)
       => ((resp'[p].status = 409) <=>
             (\E i \in RowIds(appointments) :
                /\ appointments[i].barber_id = loc'[p].barber
                /\ appointments[i].status # "cancelled"
                /\ appointments[i].start_time < loc'[p].endTime
                /\ appointments[i].end_time > loc'[p].startTime))]_vars

\* a request that starts exactly when a non-cancelled appointment of the barber
\* ends has passed the conflict check
C4_Witness ==
  \E p \in Procs, i \in RowIds(appointments) :
    /\ pc[p] = "insert"
    /\ appointments[i].barber_id = loc[p].barber
    /\ Active(i)
    /\ appointments[i].end_time = loc[p].startTime

C6_UniqueViolationReloads ==
  [][\A p \in Procs :
       (Leaves(p, "clientInsert") /\ NoFault
          /\ NormalizePhone(req[p].telefone) # NoPhone
          /\ ClientsByPhone(req[p].unit_id, NormalizePhone(req[p].telefone)) # {})
       => (pc'[p] = "schedule" /\ loc'[p].clientData.id
             \in ClientsByPhone(req[p].unit_id, NormalizePhone(req[p].telefone)))]_vars

Offered(slots, time, barber) ==
  \E n \in 1..Len(slots) : slots[n].time = time /\ slots[n].barber_id = barber

Covered(barber, instant) ==
  \E i \in RowIds(appointments) :
    /\ appointments[i].barber_id = barber
    /\ Active(i)
    /\ appointments[i].start_time <= instant
    /\ instant < appointments[i].end_time

\* C7: a check that read the appointments offers a grid slot of a barber of the
\* staff universe exactly when no non-cancelled appointment of the barber covers
\* the slot's instant.
C7_OfferedIffFree ==
  [][\A p \in Procs :
       (Accepts(p) /\ NoFault /\ Handler(req'[p].action) = "handleCheck"
          /\ resp'[p].success)
       => \A barber \in CheckBarbers(req'[p]), k \in DOMAIN Grid :
            Offered(resp'[p].slots, Grid[k], barber)
              <=> ~Covered(barber, req'[p].date * DayMinutes + Grid[k])]_vars

\* a check answered while a 60-minute appointment stands: its two slots are
\* withheld and the slot at its end is offered
C7_Witness ==
  \E p \in Procs, i \in RowIds(appointments) :
    /\ pc[p] = "done"
    /\ Handler(req[p].action) = "handleCheck"
    /\ resp[p].success
    /\ Active(i)
    /\ appointments[i].end_time = appointments[i].start_time + 60
    /\ LET barber == appointments[i].barber_id
           time == appointments[i].start_time - req[p].date * DayMinutes
       IN /\ ~Offered(resp[p].slots, time, barber)
          /\ ~Offered(resp[p].slots, time + 30, barber)
          /\ Offered(resp[p].slots, time + 60, barber)
          /\ Offered(resp[p].slots, time - 30, barber)

\* C8: a cancel with an appointment id whose update the store runs: when the
\* appointment exists in the unit of the request and is pending or confirmed,
\* the call succeeds and exactly that appointment becomes cancelled; otherwise
\* the call is answered 404 and no appointment changes.
C8_CancelById ==
  [][\A p \in Procs :
       (Accepts(p) /\ NoFault /\ Handler(req'[p].action) = "handleCancel"
          /\ req'[p].appointment_id # 0)
       => LET id == req'[p].appointment_id
          IN IF /\ id \in RowIds(appointments)
                /\ appointments[id].unit_id = req'[p].unit_id
                /\ Open(id)
             THEN /\ resp'[p].success
                  /\ resp'[p].appointment = id
                  /\ appointments' = [appointments EXCEPT ![id].status = "cancelled"]
             ELSE /\ resp'[p].status = 404
                  /\ ~resp'[p].success
                  /\ appointments' = appointments]_vars

\* a cancel by id of a completed appointment of the unit was answered 404
C8_Witness ==
  \E p \in Procs :
    /\ pc[p] = "done"
    /\ Handler(req[p].action) = "handleCancel"
    /\ req[p].appointment_id \in RowIds(appointments)
    /\ appointments[req[p].appointment_id].unit_id = req[p].unit_id
    /\ appointments[req[p].appointment_id].status = "completed"
    /\ resp[p].status = 404

\* the appointments a cancel by phone without date may select
Eligible(b, now) ==
  {i \in RowIds(appointments) :
     /\ appointments[i].unit_id = b.unit_id
     /\ appointments[i].client_phone = NormalizePhone(b.telefone)
     /\ Open(i)
     /\ appointments[i].start_time >= now}

ByPhoneNoDate(b) ==
  Handler(b.action) = "handleCancel" /\ b.appointment_id = 0 /\ b.data.zone = "absent"

\* C9: a cancel by phone without id and date selects an appointment of least
\* start among those of the unit and phone that are pending or confirmed and
\* start at or after now (404 when there is none), and its update sets that
\* appointment to cancelled and changes no other appointment.
C9_SoonestFirst ==
  [][\A p \in Procs :
       /\ (Accepts(p) /\ NoFault /\ ByPhoneNoDate(req'[p]))
          => /\ appointments' = appointments
             /\ IF Eligible(req'[p], loc'[p].now) = {}
                THEN pc'[p] = "done" /\ resp'[p].status = 404
                ELSE /\ pc'[p] = "cancelUpdate"
                     /\ loc'[p].found \in Eligible(req'[p], loc'[p].now)
                     /\ \A j \in Eligible(req'[p], loc'[p].now) :
                          appointments[loc'[p].found].start_time
                            <= appointments[j].start_time
       /\ (Leaves(p, "cancelUpdate") /\ ByPhoneNoDate(req[p]))
          => /\ Len(appointments') = Len(appointments)
             /\ \A i \in RowIds(appointments) :
                  i # loc[p].found => appointments'[i] = appointments[i]
             /\ NoFault =>
                  /\ resp'[p].success
                  /\ resp'[p].appointment = loc[p].found
                  /\ appointments'[loc[p].found] =
                       [appointments[loc[p].found] EXCEPT !.status = "cancelled"]]_vars

\* a cancel by phone has cancelled the sooner of two appointments of the phone
\* and the later one is still pending
C9_Witness ==
  \E p \in Procs, j \in RowIds(appointments) :
    /\ pc[p] = "done"
    /\ ByPhoneNoDate(req[p])
    /\ resp[p].success
    /\ appointments[resp[p].appointment].status = "cancelled"
    /\ j # resp[p].appointment
    /\ appointments[j].client_phone = NormalizePhone(req[p].telefone)
    /\ appointments[j].status = "pending"
    /\ appointments[j].start_time > appointments[resp[p].appointment].start_time

\* worker p answers a cancel request with success in this step
CancelSucceeds(p) ==
  /\ Handler(req'[p].action) = "handleCancel"
  /\ Accepts(p) \/ Leaves(p, "cancelUpdate")
  /\ pc'[p] = "done"
  /\ resp'[p].success

\* C10: every cancel that reports success has moved exactly one appointment
\* from pending or confirmed to cancelled (no store call having failed).
C10_OnePerSuccess ==
  [][\A p \in Procs :
       (CancelSucceeds(p) /\ faults' = 0)
       => Cardinality({i \in RowIds(appointments) :
                         Open(i) /\ appointments'[i].status = "cancelled"}) = 1]_vars

\* the instant a request's timestamp denotes: a timestamp without zone is wall
\* clock time three hours behind UTC, the offset of every unit's timezone here
RequestedStart(b) ==
  IF b.data.zone = "" THEN b.data.day * DayMinutes + b.data.min + 180
  ELSE b.data.day * DayMinutes + b.data.min - ZoneMinutes(b.data.zone)

\* C11: a create that succeeds inserts exactly one appointment: status pending,
\* start the normalised requested start, end the start plus the duration of the
\* resolved service, total the price of that service, barber the resolved
\* barber, and the name and normalised phone of the request.
C11_InsertedFields ==
  [][\A p \in Procs :
       (Leaves(p, "insert") /\ resp'[p].success)
       => LET b == req[p]
              n == Len(appointments) + 1
              row == appointments'[n]
          IN /\ Len(appointments') = n
             /\ SubSeq(appointments', 1, n - 1) = appointments
             /\ resp'[p].appointment = n
             /\ row.unit_id = b.unit_id
             /\ row.status = "pending"
             /\ row.start_time = RequestedStart(b)
             /\ row.barber_id = loc[p].barber
             /\ row.barber_id \in BarbersLike(b.unit_id, Contains(b.barbeiro_nome))
             /\ row.service_id = loc[p].service
             /\ row.service_id \in ServicesLike(b.unit_id, Contains(b.servico))
             /\ row.end_time = row.start_time + Services[row.service_id].duration_minutes
             /\ row.total_price = Services[row.service_id].price
             /\ row.client_name = b.nome
             /\ row.client_phone = NormalizePhone(b.telefone)]_vars

\* a create sent with a punctuated phone has booked the 60-minute service
C11_Witness ==
  \E p \in Procs :
    /\ pc[p] = "done"
    /\ Handler(req[p].action) = "handleCreate"
    /\ resp[p].success
    /\ req[p].telefone # NormalizePhone(req[p].telefone)
    /\ appointments[resp[p].appointment].client_phone = <<"1">>
    /\ appointments[resp[p].appointment].end_time =
         appointments[resp[p].appointment].start_time + 60
    /\ appointments[resp[p].appointment].total_price = 70

HasPhone(b) == NormalizePhone(b.telefone) # NoPhone
IsCreate(b) == Handler(b.action) = "handleCreate"
TagSet(tags) == {tags[k] : k \in DOMAIN tags}

\* two requests that resolve the same (unit, phone) with identical attributes
SameResolution(a, b) ==
  /\ a.unit_id = b.unit_id
  /\ NormalizePhone(a.telefone) = NormalizePhone(b.telefone)
  /\ a.nome = b.nome
  /\ a.data_nascimento = b.data_nascimento
  /\ a.observacoes = b.observacoes
  /\ TagSet(ClientTags(a)) = TagSet(ClientTags(b))

\* C12: a create that resolves a (unit, phone) right after a create that
\* resolved it with the same name, birth date, notes and tags (nothing running
\* in between, no store call failing) gets the same client and writes nothing:
\* it goes from the lookup to the booking, and the stored row is the one the
\* first resolution left.
C12_IdempotentMerge ==
  [][\A p \in Procs :
       (/\ Accepts(p) /\ faults' = 0
        /\ \A q \in Procs \ {p} : pc[q] = "idle"
        /\ pc[p] = "done" /\ IsCreate(req[p]) /\ IsCreate(req'[p])
        /\ HasPhone(req'[p]) /\ SameResolution(req[p], req'[p])
        /\ loc[p].clientData # NullClient)
       => /\ pc'[p] = "schedule"
          /\ loc'[p].clientData.id = loc[p].clientData.id
          /\ clients' = clients
          /\ clients[loc[p].clientData.id].tags = loc[p].clientData.tags
          /\ clients[loc[p].clientData.id].notes = loc[p].clientData.notes
          /\ loc'[p].clientData = loc[p].clientData]_vars

\* the second of two identical resolutions, the first of which updated birth
\* date, notes and tags of a client that had none of them
C12_Witness ==
  \E p \in Procs :
    /\ nreq = 3 /\ faults = 0
    /\ \A q \in Procs \ {p} : pc[q] = "idle"
    /\ pc[p] = "schedule"
    /\ req[p].observacoes = 7
    /\ Len(clients) = 1
    /\ clients[1].tags = <<"Novo", "VIP">>
    /\ clients[1].notes = 7
    /\ clients[1].birth_date = 5
    /\ loc[p].clientData = clients[1]

\* C13: the tags stored for a client never shrink, whatever create requests
\* run, one after another or concurrently (no store call having failed), and
\* the update of a merge leaves the union of the tags stored before it and the
\* tags supplied.
C13_TagsNeverShrink ==
  [][faults' = 0 =>
       /\ \A i \in RowIds(clients) :
            TagSet(clients[i].tags) \subseteq TagSet(clients'[i].tags)
       /\ \A p \in Procs :
            (Leaves(p, "clientUpdate") /\ loc[p].updateData.hasTags)
            => TagSet(clients'[loc[p].existingClient.id].tags)
                 = TagSet(clients[loc[p].existingClient.id].tags)
                     \cup TagSet(ClientTags(req[p]))]_vars

\* C14: the update of an existing client found by phone changes no stored birth
\* date that is not null, puts no null in the place of stored notes (notes
\* change only to the differing notes of the request) and leaves name, phone,
\* unit and visit counter as they are (no store call having failed).
C14_NothingDestroyed ==
  [][\A p \in Procs :
       (Leaves(p, "clientUpdate") /\ faults' = 0)
       => \A i \in RowIds(clients) :
            /\ clients[i].birth_date # 0 => clients'[i].birth_date = clients[i].birth_date
            /\ clients'[i].notes # clients[i].notes
                 => (clients'[i].notes # 0 /\ clients'[i].notes = req[p].observacoes)
            /\ clients'[i].name = clients[i].name
            /\ clients'[i].phone = clients[i].phone
            /\ clients'[i].unit_id = clients[i].unit_id
            /\ clients'[i].total_visits = clients[i].total_visits]_vars

\* C17: a create with a phone whose client insert fails (the lookup having
\* found no client) is answered with an error, and inserts no appointment.
C17_ClientCreateFailed ==
  [][\A p \in Procs :
       (Leaves(p, "clientInsert") /\ HasPhone(req[p]) /\ clients' = clients)
       => /\ pc'[p] = "done"
          /\ ~resp'[p].success
          /\ resp'[p].status = 500
          /\ resp'[p].appointment = 0
          /\ appointments' = appointments]_vars

\* the store failed the insert of the first client of the table
C17_Witness ==
  \E p \in Procs :
    /\ pc[p] = "done"
    /\ IsCreate(req[p]) /\ HasPhone(req[p])
    /\ resp[p].status = 500 /\ resp[p].error = "client create"
    /\ faults = 1
    /\ clients = <<>>
    /\ appointments = <<>>

\* a create without phone whose client insert failed
Clientless(p) ==
  /\ IsCreate(req[p])
  /\ ~HasPhone(req[p])
  /\ loc[p].clientData = NullClient

\* C18: a create without phone whose client insert fails goes on: with barber
\* and service found and no intersecting appointment it reaches the insert of
\* the appointment, and when that insert is made the request succeeds with one
\* new appointment and no client in the response.
C18_BookingWithoutClient ==
  [][\A p \in Procs :
       /\ (Leaves(p, "clientInsert") /\ ~HasPhone(req[p]) /\ clients' = clients)
          => (pc'[p] = "schedule" /\ loc'[p].clientData = NullClient)
       /\ (Leaves(p, "schedule") /\ Clientless(p) /\ NoFault
             /\ BarbersLike(req[p].unit_id, Contains(req[p].barbeiro_nome)) # {}
             /\ ServicesLike(req[p].unit_id, Contains(req[p].servico)) # {}
             /\ req[p].data.ok)
          => /\ loc'[p].barber # 0
             /\ Intersecting(loc'[p].barber, loc'[p].startTime, loc'[p].endTime) = {}
                  => pc'[p] = "insert"
       /\ (Leaves(p, "insert") /\ Clientless(p) /\ NoFault)
          => /\ resp'[p].success
             /\ resp'[p].client = NullClient
             /\ Len(appointments') = Len(appointments) + 1]_vars

\* the store failed the client insert of a create without phone and the
\* appointment was made
C18_Witness ==
  \E p \in Procs :
    /\ pc[p] = "done"
    /\ Clientless(p)
    /\ resp[p].success
    /\ resp[p].client = NullClient
    /\ faults = 1
    /\ clients = <<>>
    /\ resp[p].appointment \in RowIds(appointments)
    /\ appointments[resp[p].appointment].client_phone = NoPhone

IsRegister(b) == Handler(b.action) = "handleRegisterClient"

\* C19: register_client for a (unit, phone) that has a client is answered 409
\* and changes no client row; for one that has none it inserts exactly one
\* client, with the attributes of the request and visit counter 0, and returns
\* it (the store calls having returned).
C19_RegisterClient ==
  [][\A p \in Procs :
       /\ (Accepts(p) /\ NoFault /\ IsRegister(req'[p]))
          => LET ids == ClientsByPhone(req'[p].unit_id, NormalizePhone(req'[p].telefone))
             IN /\ clients' = clients
                /\ IF ids # {}
                   THEN /\ pc'[p] = "done"
                        /\ resp'[p].status = 409
                        /\ ~resp'[p].success
                        /\ resp'[p].client.id \in ids
                   ELSE pc'[p] = "registerInsert"
       /\ (Leaves(p, "registerInsert") /\ NoFault
             /\ ClientsByPhone(req[p].unit_id, NormalizePhone(req[p].telefone)) = {})
          => LET n == Len(clients) + 1
             IN /\ Len(clients') = n
                /\ SubSeq(clients', 1, n - 1) = clients
                /\ clients'[n].unit_id = req[p].unit_id
                /\ clients'[n].phone = NormalizePhone(req[p].telefone)
                /\ clients'[n].name = req[p].nome
                /\ clients'[n].birth_date = req[p].data_nascimento
                /\ clients'[n].total_visits = 0
                /\ resp'[p].success
                /\ resp'[p].client = clients'[n]]_vars

\* a registration with birth date and tags was answered 409 and the client
\* keeps the tags and the empty birth date it had
C19_Witness ==
  \E p \in Procs :
    /\ pc[p] = "done"
    /\ IsRegister(req[p])
    /\ resp[p].status = 409
    /\ resp[p].client.tags = <<"Novo">>
    /\ clients[resp[p].client.id].tags = <<"Novo">>
    /\ clients[resp[p].client.id].birth_date = 0
    /\ req[p].data_nascimento # 0

\* the calendar day, in the local time of the unit (three hours behind UTC), on
\* which an appointment starts
LocalDay(i) == (appointments[i].start_time - 180) \div DayMinutes

ByPhoneOnDate(b) ==
  /\ Handler(b.action) = "handleCancel"
  /\ b.appointment_id = 0
  /\ b.data.zone # "absent"
  /\ b.data.ok

\* the appointments a cancel by phone with a target date may select
OnLocalDay(b) ==
  {i \in RowIds(appointments) :
     /\ appointments[i].unit_id = b.unit_id
     /\ appointments[i].client_phone = NormalizePhone(b.telefone)
     /\ Open(i)
     /\ LocalDay(i) = b.data.day}

\* C15: a cancel by phone with a target date selects among the pending or
\* confirmed appointments of the unit and phone that start on that calendar day
\* in the unit's local time: it selects one of them when there is one, answers
\* 404 when there is none, and its update changes no other appointment.
C15_LocalDay ==
  [][\A p \in Procs :
       /\ (Accepts(p) /\ NoFault /\ ByPhoneOnDate(req'[p]))
          => IF OnLocalDay(req'[p]) = {}
             THEN pc'[p] = "done" /\ resp'[p].status = 404
             ELSE pc'[p] = "cancelUpdate" /\ loc'[p].found \in OnLocalDay(req'[p])
       /\ (Leaves(p, "cancelUpdate") /\ ByPhoneOnDate(req[p]))
          => \A i \in RowIds(appointments) :
               i # loc[p].found => appointments'[i] = appointments[i]]_vars

\* the half hours from the hour `first` up to, not including, the hour `last`
HalfHours(first, last) == {h * 60 + m : h \in first..(last - 1), m \in {0, 30}}

\* no appointment of the unit that is not cancelled starts or runs on the day
NoBookingOnDay(u, date) ==
  \A i \in RowIds(appointments) :
    (appointments[i].unit_id = u /\ Active(i))
    => ~(/\ appointments[i].start_time < (date + 1) * DayMinutes
         /\ appointments[i].end_time > date * DayMinutes)

\* the slots are one for every barber and time, and no other
OffersExactly(slots, barbers, times) ==
  /\ \A barber \in barbers, time \in times : Offered(slots, time, barber)
  /\ \A n \in 1..Len(slots) : slots[n].time \in times /\ slots[n].barber_id \in barbers
  /\ Len(slots) = Cardinality(barbers) * Cardinality(times)
  /\ \A n \in 1..Len(slots) : slots[n].time >= slots[1].time
  /\ \A n \in 1..Len(slots) : slots[n].time <= slots[Len(slots)].time

\* worker p serves, with no store call failing, a valid check of a day that
\* has no appointment
EmptyDayCheck(p) ==
  /\ Accepts(p) /\ NoFault
  /\ Handler(req'[p].action) = "handleCheck"
  /\ ApiKeyOk(req'[p]) /\ ~Invalid(req'[p])
  /\ CheckBarbers(req'[p]) # {}
  /\ NoBookingOnDay(req'[p].unit_id, req'[p].date)

\* C16 as stated: with no appointment on the day that is not cancelled, a check
\* on the unit open 07:00 to 21:00 offers every barber of the staff universe
\* exactly the half hours from 07:00 to 20:30.
C16_GridFromOpeningHour ==
  [][\A p \in Procs :
       EmptyDayCheck(p)
       => /\ resp'[p].success
          /\ OffersExactly(resp'[p].slots, CheckBarbers(req'[p]), HalfHours(7, 21))
          /\ resp'[p].slots[1].time = 7 * 60
          /\ resp'[p].slots[Len(resp'[p].slots)].time = 20 * 60 + 30]_vars

\* C16 as amended: with no appointment on the day that is not cancelled, a check
\* offers every barber of the staff universe exactly the half hours from 08:00
\* to 20:30, the hours fixed for every unit, whatever the services last.
C16_FixedGrid ==
  [][\A p \in Procs :
       EmptyDayCheck(p)
       => /\ resp'[p].success
          /\ OffersExactly(resp'[p].slots, CheckBarbers(req'[p]), HalfHours(8, 21))
          /\ resp'[p].slots[1].time = 8 * 60
          /\ resp'[p].slots[Len(resp'[p].slots)].time = 20 * 60 + 30]_vars

\* a check answered with the whole grid for two barbers while the only
\* appointment of the day is cancelled
C16_Witness ==
  \E p \in Procs :
    /\ pc[p] = "done"
    /\ Handler(req[p].action) = "handleCheck"
    /\ resp[p].success
    /\ faults = 0
    /\ Len(appointments) = 1
    /\ appointments[1].status = "cancelled"
    /\ appointments[1].start_time \div DayMinutes = req[p].date
    /\ Len(resp[p].slots) = 52
    /\ resp[p].slots[1].time = 8 * 60
    /\ resp[p].slots[52].time = 20 * 60 + 30

\* C20: a create whose read of the existing appointments for the conflict test
\* fails is answered with an error and goes no further.
C20_ConflictReadRequired ==
  [][\A p \in Procs :
       (Leaves(p, "schedule") /\ faults' > faults /\ loc'[p].barber # 0)
       => (pc'[p] = "done" /\ ~resp'[p].success)]_vars

\* worker p takes, in this step, a request that passes the key check and the
\* validation of the handler `handler`
Serves(p, handler) ==
  /\ Accepts(p)
  /\ Handler(req'[p].action) = handler
  /\ ApiKeyOk(req'[p]) /\ ~Invalid(req'[p])

\* C21: a check in which a store call fails (the read of the day's
\* appointments is one) is answered 500 with success false, and not with a
\* list of slots.
C21_CheckReportsStoreError ==
  [][\A p \in Procs :
       (Serves(p, "handleCheck") /\ faults' > faults)
       => /\ resp'[p].status = 500
          /\ ~resp'[p].success
          /\ resp'[p].slots = <<>>]_vars

\* worker p makes a step in this step
Steps(p) == Accepts(p) \/ pc'[p] # pc[p]

\* a create request whose timestamp is present and is no date
Unparseable(b) == IsCreate(b) /\ ~b.data.ok /\ b.data.zone # "absent"

\* C22: a create whose timestamp cannot be parsed never reaches the insert of
\* the appointment, no step of it changes the appointments table, and it is
\* answered with success false.
C22_InvalidTimestamp ==
  [][\A p \in Procs :
       (Steps(p) /\ Unparseable(req'[p]))
       => /\ pc'[p] # "insert"
          /\ appointments' = appointments
          /\ pc'[p] = "done" => (~resp'[p].success /\ resp'[p].status >= 400)]_vars

\* barber and service were found and the request ended on its timestamp
C22_Witness ==
  \E p \in Procs :
    /\ pc[p] = "done"
    /\ Unparseable(req[p])
    /\ resp[p].status = 500
    /\ resp[p].error = "Invalid time value"
    /\ faults = 0

\* minutes behind UTC of the fixed offset of each unit's timezone:
\* America/Sao_Paulo -03:00, America/Manaus -04:00, and -03:00 for America/Lima,
\* which the offset table does not have
MinutesBehind(u) == IF u = 3 THEN 240 ELSE 180

\* C24: a create with a timestamp without zone stores the wall clock time minus
\* the fixed offset of the unit's timezone, -03:00 when the table has no entry
\* for the timezone (the unit's timezone having been read).
C24_LocalWallClock ==
  [][\A p \in Procs :
       (Leaves(p, "insert") /\ resp'[p].success /\ faults' = 0 /\ req[p].data.zone = "")
       => appointments'[Len(appointments')].start_time
            = req[p].data.day * DayMinutes + req[p].data.min + MinutesBehind(req[p].unit_id)]_vars

\* local 10:00 of day 1 is stored as 14:00 UTC for the unit in America/Manaus
\* and as 13:00 UTC for the unit in America/Lima
C24_Witness ==
  \E p, q \in Procs :
    /\ pc[p] = "done" /\ pc[q] = "done"
    /\ resp[p].success /\ resp[q].success
    /\ req[p] = CreateIn(3, "") /\ req[q] = CreateIn(2, "")
    /\ appointments[resp[p].appointment].start_time = DayMinutes + 14 * 60
    /\ appointments[resp[q].appointment].start_time = DayMinutes + 13 * 60
    /\ faults = 0

\* the instant a timestamp with zone denotes
Denoted(stamp) ==
  stamp.day * DayMinutes + stamp.min
    + (CASE stamp.zone = "Z" -> 0
         [] stamp.zone = "+01:00" -> -60
         [] stamp.zone = "-05:00" -> 300)

\* C25: a create with a timestamp that carries a zone stores the instant the
\* timestamp denotes, whatever the timezone of the unit, so the same timestamp
\* gives the same instant in every unit.
C25_ZoneIsAuthoritative ==
  [][\A p \in Procs :
       (Leaves(p, "insert") /\ resp'[p].success /\ req[p].data.ok
          /\ req[p].data.zone \in {"Z", "+01:00", "-05:00"})
       => appointments'[Len(appointments')].start_time = Denoted(req[p].data)]_vars

\* the same timestamp with Z was booked in the units of America/Sao_Paulo and
\* America/Manaus and gave the same instant, and +01:00 gave 09:00 UTC
C25_Witness ==
  \E i, j, k \in RowIds(appointments) :
    /\ appointments[i].unit_id = 1
    /\ appointments[j].unit_id = 3
    /\ appointments[i].start_time = DayMinutes + 10 * 60
    /\ appointments[j].start_time = appointments[i].start_time
    /\ appointments[k].unit_id = 2
    /\ appointments[k].start_time = DayMinutes + 9 * 60

\* `part` occurs in `text`, letter case apart
HasSubstring(text, part) ==
  \E i \in 0..(Len(text) - Len(part)) :
    \A k \in 1..Len(part) : Lower(text[i + k]) = Lower(part[k])

\* the active barbers of the unit whose name contains the requested name
StaffContaining(b) ==
  {i \in RowIds(Barbers) :
     Barbers[i].unit_id = b.unit_id /\ Barbers[i].is_active
       /\ HasSubstring(Barbers[i].name, b.barbeiro_nome)}

\* the active services of the unit whose name contains the requested name
ServicesContaining(b) ==
  {i \in RowIds(Services) :
     Services[i].unit_id = b.unit_id /\ Services[i].is_active
       /\ HasSubstring(Services[i].name, b.servico)}

\* C23: a create for which no active barber of the unit has a name containing
\* the requested name is answered 404, and so is one for which no active
\* service of the unit has a name containing the requested name; neither
\* inserts an appointment (the store calls having returned).
C23_NotFound ==
  [][\A p \in Procs :
       /\ (Leaves(p, "schedule") /\ NoFault
             /\ (StaffContaining(req[p]) = {} \/ ServicesContaining(req[p]) = {}))
          => /\ pc'[p] = "done"
             /\ resp'[p].status = 404
             /\ ~resp'[p].success
             /\ appointments' = appointments
       /\ (Leaves(p, "insert") /\ resp'[p].success)
          => (StaffContaining(req[p]) # {} /\ ServicesContaining(req[p]) # {})]_vars

ActiveInUnit(barber, u) ==
  /\ barber \in RowIds(Barbers)
  /\ Barbers[barber].unit_id = u
  /\ Barbers[barber].is_active

\* C26: every slot a check returns and every appointment a create inserts has
\* a barber that is active and belongs to the unit of the request.
C26_ActiveStaffOfUnit ==
  [][\A p \in Procs :
       /\ Serves(p, "handleCheck")
          => \A n \in 1..Len(resp'[p].slots) :
               ActiveInUnit(resp'[p].slots[n].barber_id, req'[p].unit_id)
       /\ (Leaves(p, "insert") /\ Len(appointments') > Len(appointments))
          => ActiveInUnit(appointments'[Len(appointments')].barber_id, req[p].unit_id)]_vars

\* a check of unit 1, which has an inactive barber, offered slots, and the
\* barber of unit 2 was booked for unit 2
C26_Witness ==
  \E p \in Procs, i \in RowIds(appointments) :
    /\ pc[p] = "done"
    /\ Handler(req[p].action) = "handleCheck"
    /\ req[p].unit_id = 1
    /\ IsBlank(req[p].professional)
    /\ Len(resp[p].slots) = 52
    /\ appointments[i].unit_id = 2
    /\ appointments[i].barber_id = 4

\* C27: the slots of a check are in ascending order of time, slots of one time
\* are in the order of the staff universe (the order of the barbers query), and
\* no pair of time and barber is there twice.
C27_SlotOrder ==
  [][\A p \in Procs :
       Serves(p, "handleCheck")
       => \A n, m \in 1..Len(resp'[p].slots) :
            n < m =>
              \/ resp'[p].slots[n].time < resp'[p].slots[m].time
              \/ /\ resp'[p].slots[n].time = resp'[p].slots[m].time
                 /\ resp'[p].slots[n].barber_id < resp'[p].slots[m].barber_id]_vars

\* a check answered with two barbers at the first time and, an appointment
\* standing, fewer slots than the whole grid
C27_Witness ==
  \E p \in Procs :
    /\ pc[p] = "done"
    /\ Handler(req[p].action) = "handleCheck"
    /\ resp[p].success
    /\ Len(resp[p].slots) > 26
    /\ Len(resp[p].slots) < 52
    /\ resp[p].slots[1].time = resp[p].slots[2].time
    /\ resp[p].slots[1].barber_id = 1
    /\ resp[p].slots[2].barber_id = 2

\* C28: a step of a check or of a check_client changes neither the
\* appointments nor the clients, whatever the other requests are doing (the
\* barbers and the services are tables no request writes).
C28_CheckReadOnly ==
  [][\A p \in Procs :
       (Accepts(p) /\ Handler(req'[p].action) \in {"handleCheck", "handleCheckClient"})
       => /\ appointments' = appointments
          /\ clients' = clients]_vars

\* a check_client found the client while the other worker is in the middle of
\* a create
C28_Witness ==
  \E p, q \in Procs :
    /\ pc[p] = "done"
    /\ Handler(req[p].action) = "handleCheckClient"
    /\ resp[p].success
    /\ resp[p].client.id \in RowIds(clients)
    /\ pc[q] \in {"schedule", "insert"}

KnownActions ==
  {"check", "check_availability", "create", "schedule_appointment", "cancel",
   "cancel_appointment", "check_client", "register_client"}

\* the request names no known action or lacks a field its action requires
LacksRequired(b) ==
  \/ b.action \notin KnownActions
  \/ /\ b.action \in {"check", "check_availability"}
     /\ (b.date = 0 \/ b.unit_id = 0)
  \/ /\ b.action \in {"create", "schedule_appointment"}
     /\ \/ b.nome = <<>> \/ b.barbeiro_nome = <<>> \/ b.servico = <<>>
        \/ b.data = NoStamp \/ b.unit_id = 0
  \/ /\ b.action \in {"cancel", "cancel_appointment"}
     /\ \/ b.unit_id = 0
        \/ (b.appointment_id = 0 /\ \A k \in DOMAIN b.telefone : b.telefone[k] \notin Digits)
  \/ /\ b.action = "register_client"
     /\ \/ b.nome = <<>> \/ b.unit_id = 0
        \/ \A k \in DOMAIN b.telefone : b.telefone[k] \notin Digits

\* C29: a request with the right key that names no known action or lacks a
\* required field of its action (its unit, when named by instance, having been
\* found) is answered 400 with success false, and writes to no table.
C29_ValidationRejects ==
  [][\A p \in Procs :
       (/\ Accepts(p)
        /\ req'[p].key = "secret"
        /\ ~(req'[p].unit_id = 0 /\ req'[p].instance_name # 0)
        /\ LacksRequired(req'[p]))
       => /\ pc'[p] = "done"
          /\ resp'[p].status = 400
          /\ ~resp'[p].success
          /\ appointments' = appointments
          /\ clients' = clients]_vars

\* a cancel without appointment id whose phone has no digit and a request with
\* an unknown action were answered 400 while the tables have rows
C29_Witness ==
  \E p \in Procs :
    /\ pc[p] = "done"
    /\ resp[p].status = 400
    /\ req[p] \in {CancelNothing, UnknownAction}
    /\ Len(clients) > 0
    /\ Len(appointments) > 0

\* C30: a request whose key is missing or is not the secret is answered 401
\* with success false in the step that takes it: no handler runs, no store call
\* is made (none can fail), and no table changes.
C30_Unauthorized ==
  [][\A p \in Procs :
       (Accepts(p) /\ req'[p].key # "secret")
       => /\ pc'[p] = "done"
          /\ resp'[p].status = 401
          /\ ~resp'[p].success
          /\ loc'[p] = NoLocals
          /\ faults' = faults
          /\ appointments' = appointments
          /\ clients' = clients]_vars

\* a cancel without key of the pending appointment 1 was answered 401 and the
\* appointment is still pending
C30_Witness ==
  \E p \in Procs :
    /\ pc[p] = "done"
    /\ req[p] = NoKeyCancel
    /\ resp[p].status = 401
    /\ Len(appointments) > 0
    /\ appointments[1].status = "pending"

\* the create served by worker p inserts its appointment in this step
CreateSucceeds(p) == Leaves(p, "insert") /\ resp'[p].success

\* C31: no step deletes an appointment or changes a field of one other than
\* its status, and the table grows by one row for every create that succeeds
\* in the step and by nothing else.
C31_OnlyStatusChanges ==
  [][/\ Len(appointments') =
          Len(appointments) + Cardinality({p \in Procs : CreateSucceeds(p)})
     /\ \A i \in RowIds(appointments) :
          [appointments'[i] EXCEPT !.status = appointments[i].status] = appointments[i]]_vars

\* two appointments were created, the first was cancelled by phone and the
\* second completed by the administration, and both still carry the fields
\* they were inserted with
C31_Witness ==
  /\ Len(appointments) = 2
  /\ appointments[1].status = "cancelled"
  /\ appointments[2].status = "completed"
  /\ appointments[1].client_phone = <<"1">>
  /\ \E p \in Procs : pc[p] = "done" /\ req[p] = CancelPhone /\ resp[p].success

Running(p) == pc[p] \notin {"idle", "done"}

\* the steps, each of at most three store calls, that a handler may still take
\* from a position
StepsLeft(label) ==
  CASE label \in {"clientUpdate", "clientInsert"} -> 3
    [] label = "schedule" -> 2
    [] label \in {"insert", "cancelUpdate", "registerInsert"} -> 1
    [] OTHER -> 0

\* the create of worker p is about to find no barber, no service, or a
\* conflicting appointment of every barber it may take
NothingToBook(p) ==
  /\ pc[p] = "schedule"
  /\ \/ BarbersLike(req[p].unit_id, Contains(req[p].barbeiro_nome)) = {}
     \/ ServicesLike(req[p].unit_id, Contains(req[p].servico)) = {}
     \/ /\ req[p].data.ok
        /\ \A barber \in BarbersLike(req[p].unit_id, Contains(req[p].barbeiro_nome)),
              service \in ServicesLike(req[p].unit_id, Contains(req[p].servico)) :
             LET from == convertLocalToUTC(req[p].data, loc[p].timezone).t
             IN Intersecting(barber, from,
                             from + Services[service].duration_minutes) # {}

\* C32: a request that is being served is eventually answered, when every
\* store call returns; every step is one worker's, and brings it strictly
\* nearer to its answer (no retry, no wait); the answer is written once, at the
\* end; and a create with no matching barber, service or free slot is answered
\* with an error by the store call that finds it out, when that call returns rows.
C32_Completes ==
  /\ \A p \in Procs : Running(p) ~> (pc[p] = "done" /\ resp[p].status # 0)
  /\ [][/\ \E p \in Procs : Steps(p)
        /\ \A p \in Procs :
             /\ (Steps(p) /\ Running(p))
                  => StepsLeft(pc'[p]) < StepsLeft(pc[p])
             /\ (Steps(p) /\ pc'[p] = "done") => resp'[p].status # 0
             /\ (pc'[p] # "done") => resp'[p] = NoResponse
             /\ ~Steps(p) => resp'[p] = resp[p]
             /\ (NothingToBook(p) /\ Steps(p) /\ NoFault)
                  => (pc'[p] = "done" /\ ~resp'[p].success)]_vars

\* every request of the behaviour was answered: a create that names an
\* inactive barber with 404 after its store calls on clients and barbers
C32_Witness ==
  /\ nreq = MaxRequests
  /\ \A p \in Procs : pc[p] = "done"
  /\ \E p \in Procs :
       /\ req[p] = CreateInactiveBarber
       /\ resp[p].status = 404
       /\ Len(clients) > 0

\* C33: when the requests are served one at a time and no store call has
\* failed, any two non-cancelled appointments of one barber lie one after the
\* other.
C33_SerialNoOverlap ==
  faults = 0 =>
    \A i \in RowIds(appointments) : \A j \in (i + 1)..Len(appointments) :
      (appointments[i].barber_id = appointments[j].barber_id /\ Active(i) /\ Active(j))
      => \/ appointments[i].end_time <= appointments[j].start_time
         \/ appointments[j].end_time <= appointments[i].start_time

\* two appointments of one barber that touch at 10:30 were booked, and a third
\* create, for 10:15 with the same barber, was answered 409
C33_Witness ==
  /\ faults = 0
  /\ Len(appointments) = 2
  /\ appointments[1].barber_id = appointments[2].barber_id
  /\ Active(1) /\ Active(2)
  /\ appointments[1].end_time = appointments[2].start_time
  /\ pc[1] = "done" /\ req[1] = CreateB /\ resp[1].status = 409

\* a non-cancelled appointment of the barber covers the wall clock time
\* (date, minute of the day) of its unit
CoveredLocally(barber, date, minute) ==
  \E i \in RowIds(appointments) :
    LET behind == MinutesBehind(appointments[i].unit_id)
    IN /\ appointments[i].barber_id = barber
       /\ Active(i)
       /\ appointments[i].start_time - behind <= date * DayMinutes + minute
       /\ date * DayMinutes + minute < appointments[i].end_time - behind

\* C34: a check that read the appointments offers the grid time hh:mm of a
\* barber exactly when no non-cancelled appointment of the barber covers hh:mm
\* of that date on the unit's wall clock, the clock in which create reads a
\* timestamp without zone.
C34_CheckAgreesWithCreate ==
  [][\A p \in Procs :
       (Serves(p, "handleCheck") /\ NoFault /\ resp'[p].success)
       => \A barber \in CheckBarbers(req'[p]), k \in DOMAIN Grid :
            Offered(resp'[p].slots, Grid[k], barber)
              <=> ~CoveredLocally(barber, req'[p].date, Grid[k])]_vars

\* a cancelled appointment of the barber intersects [from, to)
FreedBy(barber, from, to) ==
  {i \in RowIds(appointments) :
     /\ appointments[i].barber_id = barber
     /\ ~Active(i)
     /\ appointments[i].start_time < to
     /\ appointments[i].end_time > from}

\* a cancelled appointment of the barber covers the wall clock time
CancelledLocally(barber, date, minute) ==
  \E i \in RowIds(appointments) :
    LET behind == MinutesBehind(appointments[i].unit_id)
    IN /\ appointments[i].barber_id = barber
       /\ ~Active(i)
       /\ appointments[i].start_time - behind <= date * DayMinutes + minute
       /\ date * DayMinutes + minute < appointments[i].end_time - behind

\* C35: after a cancel, a create of the barber on an interval that only
\* cancelled appointments intersect goes on to its insert, and a check that
\* read the appointments offers every grid time of the barber that, on the
\* unit's clock, only cancelled appointments cover.
C35_CancelFrees ==
  [][\A p \in Procs :
       /\ (/\ Leaves(p, "schedule") /\ NoFault /\ loc'[p].barber # 0
           /\ FreedBy(loc'[p].barber, loc'[p].startTime, loc'[p].endTime) # {}
           /\ Intersecting(loc'[p].barber, loc'[p].startTime, loc'[p].endTime) = {})
          => pc'[p] = "insert"
       /\ (Serves(p, "handleCheck") /\ NoFault /\ resp'[p].success)
          => \A barber \in CheckBarbers(req'[p]), k \in DOMAIN Grid :
               (/\ CancelledLocally(barber, req'[p].date, Grid[k])
                /\ ~CoveredLocally(barber, req'[p].date, Grid[k]))
               => Offered(resp'[p].slots, Grid[k], barber)]_vars

\* the request of worker p is a create that ended in one of the failures of
\* the booking
FailedCreate(p) ==
  /\ pc[p] = "done"
  /\ IsCreate(req[p])
  /\ resp[p].error \in {"barber", "service", "slot unavailable", "Invalid time value",
                        "appointment create"}

\* C36 as claimed: when every request served so far was a create that ended
\* in a failure of the booking, both tables are as they were at the start.
C36_NoPartialEffect ==
  (/\ \A p \in Procs : pc[p] = "idle" \/ FailedCreate(p)
   /\ nreq = Cardinality({p \in Procs : pc[p] = "done"}))
  => (appointments = <<>> /\ clients = <<>>)

\* C36 as the code has it: no step of a create other than its insert that
\* succeeds changes the appointments table, and no step of a create after its
\* client resolution (the barber, service, timestamp and conflict step, and
\* the insert) changes the clients table; so a create that ends in a failure
\* of the booking leaves no appointment, and leaves the clients table as its
\* client resolution wrote it.
C36_FailedCreateKeepsBookings ==
  [][\A p \in Procs :
       /\ (Steps(p) /\ IsCreate(req'[p]) /\ ~CreateSucceeds(p))
          => appointments' = appointments
       /\ (pc[p] \in {"schedule", "insert"} /\ Steps(p)) => clients' = clients
       /\ (Steps(p) /\ IsCreate(req'[p]))
          => \A i \in RowIds(clients) :
               /\ clients'[i].name = clients[i].name
               /\ clients'[i].phone = clients[i].phone
               /\ clients'[i].unit_id = clients[i].unit_id]_vars

\* the one request served was a create that found no active barber: no
\* appointment, and the client it inserted before it looked for the barber
C36_Witness ==
  \E p \in Procs :
    /\ nreq = 1
    /\ FailedCreate(p)
    /\ req[p] = CreateInactiveBarber
    /\ resp[p].status = 404
    /\ appointments = <<>>
    /\ Len(clients) = 1
    /\ clients[1].phone = <<"1">>

\* the same text but for the case of the letters
SameNameIgnoringCase(a, b) ==
  Len(a) = Len(b) /\ \A k \in 1..Len(a) : Lower(a[k]) = Lower(b[k])

\* the clients of the request's unit with the request's name and, when the
\* request has one, its birth date
NamedAsIn(b) ==
  {i \in RowIds(clients) :
     /\ clients[i].unit_id = b.unit_id
     /\ SameNameIgnoringCase(clients[i].name, b.nome)
     /\ (b.data_nascimento # 0 => clients[i].birth_date = b.data_nascimento)}

\* C37: a create without phone whose name matches one or more clients of the
\* unit when it looks the client up (the lookup returning) goes straight on to
\* the booking, with no client insert or update to make, and none of its steps
\* changes the clients table.
C37_NameMatchReused ==
  [][\A p \in Procs :
       /\ (/\ Serves(p, "handleCreate") /\ NoFault
           /\ ~HasPhone(req'[p])
           /\ NamedAsIn(req'[p]) # {})
          => (pc'[p] = "schedule" /\ clients' = clients)
       /\ (/\ Steps(p) /\ IsCreate(req[p]) /\ ~HasPhone(req[p])
           /\ NamedAsIn(req[p]) # {} /\ loc[p].existingClient # NullClient)
          => clients' = clients]_vars

\* C38: no step turns an appointment that is not pending or confirmed into a
\* cancelled one, and a cancel by phone that answers success has written to an
\* appointment that was pending or confirmed when it wrote.
C38_CancelOnlyOpen ==
  [][/\ \A i \in RowIds(appointments) :
          (appointments'[i].status = "cancelled" /\ appointments[i].status # "cancelled")
          => Open(i)
     /\ \A p \in Procs :
          (Leaves(p, "cancelUpdate") /\ resp'[p].success) => Open(loc[p].found)]_vars

\* the clients of the request's own unit that have the request's phone
OwnClients(b) ==
  {i \in RowIds(clients) :
     clients[i].unit_id = b.unit_id /\ clients[i].phone = NormalizePhone(b.telefone)}

\* C39: a step of a request for unit U changes no appointment and no client of
\* another unit; the appointment a cancel by phone finds, the client a create
\* or register_client finds and the client a response carries are of unit U;
\* and a register_client whose phone is known in other units only is not
\* answered as a duplicate but goes on to its insert, which succeeds.
C39_UnitIsolation ==
  [][\A p \in Procs : Steps(p) =>
       /\ \A i \in RowIds(appointments) :
            appointments[i].unit_id # req'[p].unit_id => appointments'[i] = appointments[i]
       /\ \A i \in RowIds(clients) :
            clients[i].unit_id # req'[p].unit_id => clients'[i] = clients[i]
       /\ loc'[p].found # 0 => appointments[loc'[p].found].unit_id = req'[p].unit_id
       /\ loc'[p].existingClient # NullClient
            => loc'[p].existingClient.unit_id = req'[p].unit_id
       /\ resp'[p].client # NullClient => resp'[p].client.unit_id = req'[p].unit_id
       /\ (IsRegister(req'[p]) /\ NoFault /\ OwnClients(req'[p]) = {})
            => \/ pc'[p] = "registerInsert"
               \/ (pc'[p] = "done" /\ resp'[p].success)]_vars

\* the phone 1 is a client of unit 1 and of unit 2, and a cancel sent for unit
\* 2 with the id of the pending appointment of unit 1 was answered 404
C39_Witness ==
  \E p \in Procs :
    /\ pc[p] = "done"
    /\ req[p] = CancelElsewhere
    /\ resp[p].status = 404
    /\ Len(appointments) > 0
    /\ appointments[1].unit_id = 1 /\ Open(1)
    /\ \E i, j \in RowIds(clients) :
         /\ clients[i].unit_id = 1 /\ clients[j].unit_id = 2
         /\ clients[i].phone = clients[j].phone

====
